---- MODULE Spec2Model ----
(***************************************************************************)
(* A model of tern (wayneworkman/tern): CommandWrapper.run spawns a shell  *)
(* command, drains its stdout and stderr pipes with two reader threads     *)
(* (read_output), keeps a bounded capture of each stream, and optionally   *)
(* hands the captures to AIAnalyzer.analyze.                               *)
(*                                                                         *)
(* Text is modelled by TLA+ strings; Len, \o and SubSeq act on them        *)
(* character by character.  The child process is the environment: it       *)
(* writes terminated lines into two bounded pipes and exits with a code.   *)
(* A console stream starts writable, can become unwritable at a reader's   *)
(* echo, and a stream that has failed may fail again at a later write.     *)
(***************************************************************************)
EXTENDS Integers, Sequences, FiniteSets, TLC

VARIABLES
    pc,             \* position of the control thread inside run
    runs,           \* number of run calls started on this CommandWrapper
    argv,           \* the argument list run was called with
    isatty,         \* what sys.stdout.isatty() answers during this run
    isattyCalls,    \* number of sys.stdout.isatty() calls in this run
    max_lines,      \* config value limits.max_lines
    command_str,    \* run's local command_str
    should_analyze, \* run's local should_analyze
    popenCalls,     \* command strings handed to subprocess.Popen in this run
    child,          \* "none", "running" or "exited"
    childCode,      \* the child's exit status, <<>> until it has exited
    written,        \* writes the child has attempted, per stream
    pipe,           \* lines in flight in each pipe (raw, with terminator)
    pipeOpen,       \* whether the read end of each pipe is open
    closeCount,     \* pipe.close() calls per stream, over all runs
    rpc,            \* position of each read_output thread
    exitPath,       \* how each read_output loop ended: "eof", "echo", "read"
    queue_obj,      \* the queue.Queue of each stream
    storage_list,   \* the deque of each stream (output_lines, error_lines)
    console,        \* what this run wrote to sys.stdout / sys.stderr
    consoleBroken,  \* whether a write to the console stream has failed
    return_code,    \* run's local return_code, <<>> until process.wait()
    analyzeCalls,   \* the calls of ai_analyzer.analyze in this run
    ret,            \* value run returned, <<>> while running or if it raised
    analyzed,       \* how the analyze call of this run ended
    spawnCount,     \* children spawned by this CommandWrapper, over all runs
    prev,           \* what the previous run of this CommandWrapper showed
    sys_argv,       \* sys.argv when the process was started through main
    exitStatus,     \* exit status of the process, <<>> while it is alive
    config_file,    \* the file at Config.config_path, as the loader sees it
    environ,        \* os.environ, the TERN_* variables that are set
    require_config_file, \* Config.require_config_file
    config,         \* Config.config, by dotted key
    cpc,            \* position inside Config.__init__
    bedrock_client, \* whether AIAnalyzer.bedrock_client is a client
    apc,            \* position inside AIAnalyzer.analyze
    analyzeArgs,    \* the arguments of the analyze call in progress
    prompt,         \* analyze's local prompt, <<>> until it is built
    response,       \* analyze's local response, <<>> for None
    invokeCalls,    \* prompts handed to bedrock_client.invoke_model
    analyzeResult   \* how the analyze call ended

vars == <<pc, runs, argv, isatty, isattyCalls, max_lines, command_str,
          should_analyze, popenCalls, child, childCode, written, pipe,
          pipeOpen, closeCount, rpc, exitPath, queue_obj, storage_list,
          console, consoleBroken, return_code, analyzeCalls, ret, analyzed,
          spawnCount, prev, sys_argv, exitStatus, config_file, environ,
          require_config_file, config, cpc, bedrock_client, apc,
          analyzeArgs, prompt, response, invokeCalls, analyzeResult>>

\* the state of the Config object and of the AIAnalyzer object
configVars == <<config_file, environ, require_config_file, config, cpc>>

analyzerVars ==
    <<bedrock_client, apc, analyzeArgs, prompt, response, invokeCalls,
      analyzeResult>>

Streams == {"stdout", "stderr"}

(***************************************************************************)
(* Bounds of the model.                                                    *)
(***************************************************************************)
MaxLines == 3       \* lines the child writes, both streams together
MaxCap == 2         \* largest limits.max_lines tried
PipeCap == 1        \* lines an OS pipe buffers before the writer blocks
MaxRuns == 2        \* run calls on one CommandWrapper
MaxArgs == 3        \* tokens in an argument list
MaxSettings == 1    \* settings of a config file or of the environment

DefaultMaxLines == 10000
DefaultTimeout == 180
DefaultOutputChars == 15000
DefaultErrorChars == 5000
MaxTimeout == 3600
WarningWidth == 60
WarningKeep == 40
SIGPIPE == 13
UsageExit == 1

ExitCodes == {-9, 0, 1}

(***************************************************************************)
(* Pure helpers.                                                           *)
(***************************************************************************)
Min(a, b) == IF a < b THEN a ELSE b

Last(s) == s[Len(s)]

\* a join that leaves out empty items
RECURSIVE JoinNonEmpty(_, _)
JoinNonEmpty(items, sep) ==
    IF Len(items) = 0 THEN ""
    ELSE IF Len(items) = 1 THEN items[1]
    ELSE IF items[1] = "" THEN JoinNonEmpty(Tail(items), sep)
    ELSE items[1] \o sep \o JoinNonEmpty(Tail(items), sep)

\* str.join: the items separated by sep
RECURSIVE Join(_, _)
Join(items, sep) ==
    IF Len(items) = 0 THEN ""
    ELSE IF Len(items) = 1 THEN items[1]
    ELSE items[1] \o sep \o Join(Tail(items), sep)

\* s[:n]
Prefix(s, n) == SubSeq(s, 1, Min(n, Len(s)))

\* line.rstrip('\n'): every trailing line feed removed
RECURSIVE RStripNL(_)
RStripNL(line) ==
    IF Len(line) > 0 /\ SubSeq(line, Len(line), Len(line)) = "\n"
    THEN RStripNL(SubSeq(line, 1, Len(line) - 1))
    ELSE line

\* a deque that refuses the new line when full instead of evicting the oldest
DequeAppendKeepOldest(d, x, cap) ==
    IF Len(d) >= cap THEN d ELSE Append(d, x)

\* deque(maxlen=cap).append(x)
DequeAppend(d, x, cap) ==
    IF cap = 0 THEN d
    ELSE IF Len(d) >= cap THEN Append(Tail(d), x)
    ELSE Append(d, x)

(***************************************************************************)
(* Directive filter, wrapper.py lines 38-44.                               *)
(***************************************************************************)
\* a recognition of '--no-ai' anywhere inside a token
SkipAiInsideToken(args) ==
    \E i \in 1..Len(args) :
        \E k \in 1..(Len(args[i]) - 6) : SubSeq(args[i], k, k + 6) = "--no-ai"

\* skip_ai = '--no-ai' in args
SkipAi(args) == \E i \in 1..Len(args) : args[i] = "--no-ai"

IsNotNoAi(a) == a # "--no-ai"

\* a filter that removes only the first '--no-ai'
RECURSIVE StripFirstNoAi(_)
StripFirstNoAi(args) ==
    IF Len(args) = 0 THEN args
    ELSE IF Head(args) = "--no-ai" THEN Tail(args)
    ELSE <<Head(args)>> \o StripFirstNoAi(Tail(args))

StripNoAi(args) ==
    IF SkipAi(args) THEN SelectSeq(args, IsNotNoAi) ELSE args

\* a filter that forgets '--ai-summary'
IsNotVerbose(a) == a # "--ai-verbose"

IsNotDeprecated(a) == a \notin {"--ai-verbose", "--ai-summary"}

StripDeprecated(args) == SelectSeq(args, IsNotDeprecated)

CleanArgs(args) == StripDeprecated(StripNoAi(args))

CommandStr(args) == Join(CleanArgs(args), " ")

\* a gate that ignores the interactivity of standard output
ShouldAnalyzeIgnoringTty(args, tty) == ~SkipAi(args)

\* the analysis gate, wrapper.py lines 46-59
ShouldAnalyze(args, tty) == IF ~tty THEN FALSE ELSE ~SkipAi(args)

\* a suggestion that always carries the whole command
WarningMsgWhole(cs) == "tern '" \o cs \o " | ...'"

\* warning_msg, wrapper.py lines 50-52
WarningMsg(cs) ==
    LET w == "tern '" \o cs \o " | ...'"
    IN  IF Len(w) > WarningWidth
        THEN "tern '" \o Prefix(cs, WarningKeep) \o "... | ...'"
        ELSE w


(***************************************************************************)
(* Console text.  The pictographs of the original messages are left out;   *)
(* each entry is one print call, text followed by the terminator print     *)
(* adds, tagged with the code that wrote it.                               *)
(***************************************************************************)
Entry(src, text) == [src |-> src, text |-> text \o "\n"]

UsageText ==
    << "Usage: tern <command> [args...]",
       "Examples:",
       "  tern terraform plan",
       "  tern terraform apply --auto-approve",
       "  tern ls -la",
       "  tern echo 'hello world'",
       "",
       "TERN flags:",
       "  --no-ai       Skip AI analysis for this command" >>

UsageEntries == [i \in 1..Len(UsageText) |-> Entry("usage", UsageText[i])]

\* a usage text that goes to the error stream
UsageConsoleOnStderr == [stdout |-> <<>>, stderr |-> UsageEntries]

\* the console after the prints of wrapper.py lines 27-35
UsageConsole == [stdout |-> UsageEntries, stderr |-> <<>>]

WarningEntries(cs) ==
    << Entry("warning", ""),
       Entry("warning", "TERN: Output is being piped - AI analysis disabled"),
       Entry("warning",
             "   To analyze the full pipeline, use: " \o WarningMsg(cs)),
       Entry("warning", "") >>

\* a warning that is left out when '--no-ai' was given
PipeWarningUnlessOptedOut(args, tty) ==
    IF ~tty /\ ~SkipAi(args) THEN WarningEntries(CommandStr(args)) ELSE <<>>

\* what run prints before the spawn, wrapper.py lines 46-57
PipeWarning(args, tty) ==
    IF ~tty THEN WarningEntries(CommandStr(args)) ELSE <<>>

Rule == "============================================================"

BannerEntries(analysis) ==
    << Entry("banner", "\n" \o Rule),
       Entry("banner", "TERN AI Analysis:"),
       Entry("banner", Rule),
       Entry("banner", analysis),
       Entry("banner", Rule \o "\n") >>

SpawnErrorEntry == Entry("error", "Error running command: spawn failed")

WrapperErrorEntry == Entry("error", "\nERROR in TERN wrapper: analysis failed")

(***************************************************************************)
(* Config, config.py.  self.config is modelled by dotted key: a function   *)
(* from the keys that are set to their values.  A value is a record that   *)
(* names its Python type; a float keeps its text.                          *)
(***************************************************************************)
IntV(n) == [kind |-> "int", n |-> n, s |-> "", b |-> FALSE]

StrV(s) == [kind |-> "str", n |-> 0, s |-> s, b |-> FALSE]

BoolV(b) == [kind |-> "bool", n |-> 0, s |-> "", b |-> b]

FloatV(s) == [kind |-> "float", n |-> 0, s |-> s, b |-> FALSE]

NoneV == [kind |-> "none", n |-> 0, s |-> "", b |-> FALSE]

\* bool(value)
Truthy(v) ==
    CASE v.kind = "int" -> v.n # 0
      [] v.kind = "str" -> v.s # ""
      [] v.kind = "bool" -> v.b
      [] v.kind = "float" -> TRUE
      [] OTHER -> FALSE

DEFAULT_CONFIG ==
    [k \in {"bedrock.timeout", "limits.output_chars", "limits.error_chars",
            "limits.max_lines", "debug"} |->
        CASE k = "bedrock.timeout" -> IntV(DefaultTimeout)
          [] k = "limits.output_chars" -> IntV(DefaultOutputChars)
          [] k = "limits.error_chars" -> IntV(DefaultErrorChars)
          [] k = "limits.max_lines" -> IntV(DefaultMaxLines)
          [] OTHER -> BoolV(FALSE)]

ENV_VAR_MAP ==
    [v \in {"TERN_BEDROCK_MODEL_ID", "TERN_BEDROCK_REGION",
            "TERN_BEDROCK_TIMEOUT", "TERN_LIMITS_OUTPUT_CHARS",
            "TERN_LIMITS_ERROR_CHARS", "TERN_LIMITS_MAX_LINES",
            "TERN_DEBUG"} |->
        CASE v = "TERN_BEDROCK_MODEL_ID" -> "bedrock.model_id"
          [] v = "TERN_BEDROCK_REGION" -> "bedrock.region"
          [] v = "TERN_BEDROCK_TIMEOUT" -> "bedrock.timeout"
          [] v = "TERN_LIMITS_OUTPUT_CHARS" -> "limits.output_chars"
          [] v = "TERN_LIMITS_ERROR_CHARS" -> "limits.error_chars"
          [] v = "TERN_LIMITS_MAX_LINES" -> "limits.max_lines"
          [] OTHER -> "debug"]

\* Config.get
Get(cfg, key, default) == IF key \in DOMAIN cfg THEN cfg[key] ELSE default

\* _deep_merge, for sections that are mappings on both sides
DeepMerge(base, override) ==
    [k \in DOMAIN base \cup DOMAIN override |->
        IF k \in DOMAIN override THEN override[k] ELSE base[k]]

\* str.lower, str.isdigit and int on the text of an environment variable
UpperCase == "ABCDEFGHIJKLMNOPQRSTUVWXYZ"

LowerCase == "abcdefghijklmnopqrstuvwxyz"

LowerChar(c) ==
    IF \E i \in 1..Len(UpperCase) : SubSeq(UpperCase, i, i) = c
    THEN LET i == CHOOSE j \in 1..Len(UpperCase) : SubSeq(UpperCase, j, j) = c
         IN  SubSeq(LowerCase, i, i)
    ELSE c

RECURSIVE Lower(_)
Lower(text) ==
    IF text = "" THEN ""
    ELSE LowerChar(SubSeq(text, 1, 1)) \o Lower(SubSeq(text, 2, Len(text)))

Digits == "0123456789"

IsDigitChar(c) == \E i \in 1..Len(Digits) : SubSeq(Digits, i, i) = c

IsDigit(text) ==
    /\ text # ""
    /\ \A i \in 1..Len(text) : IsDigitChar(SubSeq(text, i, i))

DigitValue(c) ==
    (CHOOSE i \in 1..Len(Digits) : SubSeq(Digits, i, i) = c) - 1

RECURSIVE ToInt(_)
ToInt(text) ==
    IF text = "" THEN 0
    ELSE 10 * ToInt(SubSeq(text, 1, Len(text) - 1))
         + DigitValue(SubSeq(text, Len(text), Len(text)))

\* the test of line 132: a dot, and digits on both sides of the first dot
IsFloatText(text) ==
    \E i \in 1..Len(text) :
        /\ SubSeq(text, i, i) = "."
        /\ IsDigit(SubSeq(text, 1, i - 1))
        /\ IsDigit(SubSeq(text, i + 1, Len(text)))

\* the conversion of lines 128-136
ConvertEnv(value) ==
    IF Lower(value) \in {"true", "false"} THEN BoolV(Lower(value) = "true")
    ELSE IF IsDigit(value) THEN IntV(ToInt(value))
    ELSE IF IsFloatText(value) THEN FloatV(value)
    ELSE StrV(value)

\* the settings _load_env_vars stores, lines 122-148
EnvSettings(env) ==
    [k \in {ENV_VAR_MAP[v] : v \in DOMAIN env} |->
        ConvertEnv(env[CHOOSE v \in DOMAIN env : ENV_VAR_MAP[v] = k])]

\* int(timeout) of a text, line 155: digits with an optional minus sign
IsIntText(text) ==
    \/ IsDigit(text)
    \/ /\ Len(text) > 1
       /\ SubSeq(text, 1, 1) = "-"
       /\ IsDigit(SubSeq(text, 2, Len(text)))

IntOfText(text) ==
    IF SubSeq(text, 1, 1) = "-"
    THEN 0 - ToInt(SubSeq(text, 2, Len(text)))
    ELSE ToInt(text)

Abs(n) == IF n < 0 THEN 0 - n ELSE n

\* the whole part of a float that is written d.d
WholePart(text) ==
    ToInt(SubSeq(text, 1,
        (CHOOSE i \in 1..Len(text) : SubSeq(text, i, i) = ".") - 1))

\* what _validate_config makes of bedrock.timeout, lines 152-162
SanitizedTimeout(timeout) ==
    LET t == IF timeout.kind = "str"
             THEN IF IsIntText(timeout.s) THEN IntV(IntOfText(timeout.s))
                  ELSE IntV(DefaultTimeout)
             ELSE timeout
    IN  CASE t.kind = "int" -> IntV(Min(Abs(t.n), MaxTimeout))
          [] t.kind = "bool" -> IntV(IF t.b THEN 1 ELSE 0)
          [] t.kind = "float" -> IntV(Min(WholePart(t.s), MaxTimeout))
          [] OTHER -> t

ValidateConfig(cfg) ==
    IF "bedrock.timeout" \in DOMAIN cfg
    THEN [cfg EXCEPT !["bedrock.timeout"] = SanitizedTimeout(@)]
    ELSE cfg

\* the identifiers a Config built with require_config_file=False falls
\* back to, lines 62-63, 107-110 and 86-89
TestIds ==
    [k \in {"bedrock.model_id", "bedrock.region"} |->
        IF k = "bedrock.model_id" THEN StrV("test-model-id")
        ELSE StrV("us-east-1")]

FillTestIds(cfg) ==
    [k \in DOMAIN cfg \cup DOMAIN TestIds |->
        IF k \in DOMAIN TestIds /\ ~Truthy(Get(cfg, k, NoneV))
        THEN TestIds[k] ELSE cfg[k]]

ConfigWarningEntry == Entry("config", "Warning: Failed to load config")

\* the file branch of __init__, lines 59-63, with _load_config
LoadConfig ==
    /\ cpc = "file"
    /\ cpc' = "env"
    /\ IF config_file.exists
       THEN IF config_file.parses
            THEN /\ config' =
                        LET merged == DeepMerge(config, config_file.content)
                        IN  ValidateConfig(IF require_config_file THEN merged
                                           ELSE FillTestIds(merged))
                 /\ UNCHANGED console
            ELSE /\ console' =
                        [console EXCEPT !.stdout = Append(@, ConfigWarningEntry)]
                 /\ UNCHANGED config
       ELSE /\ config' = IF require_config_file THEN config
                         ELSE FillTestIds(config)
            /\ UNCHANGED console
    /\ UNCHANGED <<pc, runs, argv, isatty, isattyCalls, max_lines,
                   command_str, should_analyze, popenCalls, child, childCode,
                   written, pipe, pipeOpen, closeCount, rpc, exitPath,
                   queue_obj, storage_list, consoleBroken, return_code,
                   analyzeCalls, ret>>
    /\ UNCHANGED <<analyzed, spawnCount, prev, sys_argv, exitStatus>>
    /\ UNCHANGED <<config_file, environ, require_config_file, analyzerVars>>

\* an environment that only fills what the file has left open
LoadEnvVarsBeneath ==
    /\ cpc = "env"
    /\ cpc' = "required"
    /\ config' = DeepMerge(EnvSettings(environ), config)
    /\ UNCHANGED <<pc, runs, argv, isatty, isattyCalls, max_lines,
                   command_str, should_analyze, popenCalls, child, childCode,
                   written, pipe, pipeOpen, closeCount, rpc, exitPath,
                   queue_obj, storage_list, console, consoleBroken,
                   return_code, analyzeCalls, ret>>
    /\ UNCHANGED <<analyzed, spawnCount, prev, sys_argv, exitStatus>>
    /\ UNCHANGED <<config_file, environ, require_config_file, analyzerVars>>

\* self._load_env_vars(), line 65
LoadEnvVars ==
    /\ cpc = "env"
    /\ cpc' = "required"
    /\ config' = DeepMerge(config, EnvSettings(environ))
    /\ UNCHANGED <<pc, runs, argv, isatty, isattyCalls, max_lines,
                   command_str, should_analyze, popenCalls, child, childCode,
                   written, pipe, pipeOpen, closeCount, rpc, exitPath,
                   queue_obj, storage_list, console, consoleBroken,
                   return_code, analyzeCalls, ret>>
    /\ UNCHANGED <<analyzed, spawnCount, prev, sys_argv, exitStatus>>
    /\ UNCHANGED <<config_file, environ, require_config_file, analyzerVars>>

ConfigErrorEntry == Entry("config", "ERROR: configuration")

\* the end of __init__, lines 67-89, with _validate_required_config
CheckRequired ==
    /\ cpc = "required"
    /\ IF require_config_file
       THEN IF \/ ~Truthy(Get(config, "bedrock.model_id", NoneV))
               \/ ~Truthy(Get(config, "bedrock.region", NoneV))
            THEN /\ cpc' = "exit"
                 /\ exitStatus' = <<1>>
                 /\ console' =
                        [console EXCEPT !.stdout = Append(@, ConfigErrorEntry)]
                 /\ UNCHANGED config
            ELSE /\ cpc' = "ready"
                 /\ UNCHANGED <<config, console, exitStatus>>
       ELSE /\ cpc' = "ready"
            /\ config' = FillTestIds(config)
            /\ UNCHANGED <<console, exitStatus>>
    /\ UNCHANGED <<pc, runs, argv, isatty, isattyCalls, max_lines,
                   command_str, should_analyze, popenCalls, child, childCode,
                   written, pipe, pipeOpen, closeCount, rpc, exitPath,
                   queue_obj, storage_list, consoleBroken, return_code,
                   analyzeCalls, ret>>
    /\ UNCHANGED <<analyzed, spawnCount, prev, sys_argv>>
    /\ UNCHANGED <<config_file, environ, require_config_file, analyzerVars>>

(***************************************************************************)
(* The state before the first run: a constructed CommandWrapper whose      *)
(* configuration fixes limits.max_lines.                                   *)
(***************************************************************************)
NoLines == [s \in Streams |-> <<>>]

\* ai_analyzer.analyze has not been called in this run
NotAnalyzed == [state |-> "uncalled", value |-> <<>>]

\* what a finished run leaves behind for whoever called it
Snapshot ==
    [argv |-> argv, isatty |-> isatty, should_analyze |-> should_analyze,
     popenCalls |-> popenCalls, childCode |-> childCode,
     queue_obj |-> queue_obj, pipe |-> pipe, exitPath |-> exitPath,
     consoleBroken |-> consoleBroken, storage_list |-> storage_list,
     console |-> console, pc |-> pc, ret |-> ret]

\* a CommandWrapper that has not run yet
WrapperInit(capacities) ==
    /\ pc = "idle"
    /\ runs = 0
    /\ argv = <<>>
    /\ isatty = FALSE
    /\ isattyCalls = 0
    /\ max_lines \in capacities
    /\ command_str = ""
    /\ should_analyze = FALSE
    /\ popenCalls = <<>>
    /\ child = "none"
    /\ childCode = <<>>
    /\ written = [s \in Streams |-> 0]
    /\ pipe = NoLines
    /\ pipeOpen = [s \in Streams |-> FALSE]
    /\ closeCount = [s \in Streams |-> 0]
    /\ rpc = [s \in Streams |-> "none"]
    /\ exitPath = [s \in Streams |-> "none"]
    /\ queue_obj = NoLines
    /\ storage_list = NoLines
    /\ console = NoLines
    /\ consoleBroken = [s \in Streams |-> FALSE]
    /\ return_code = <<>>
    /\ analyzeCalls = <<>>
    /\ ret = <<>>
    /\ analyzed = NotAnalyzed
    /\ spawnCount = 0
    /\ prev = <<>>
    /\ sys_argv = <<>>
    /\ exitStatus = <<>>

\* a Config whose construction has ended, with limits.max_lines as given
ConfigBuilt(maxLines) ==
    /\ config_file = [exists |-> FALSE, parses |-> FALSE, content |-> <<>>]
    /\ environ = [v \in {"TERN_LIMITS_MAX_LINES"} |-> ToString(maxLines)]
    /\ require_config_file = FALSE
    /\ config = FillTestIds(DeepMerge(DEFAULT_CONFIG, EnvSettings(environ)))
    /\ cpc = "ready"

\* an AIAnalyzer on which analyze has not been called
AnalyzerIdle ==
    /\ bedrock_client = TRUE
    /\ apc = "idle"
    /\ analyzeArgs = <<>>
    /\ prompt = <<>>
    /\ response = <<>>
    /\ invokeCalls = <<>>
    /\ analyzeResult = NotAnalyzed

InitWith(capacities) ==
    /\ WrapperInit(capacities)
    /\ ConfigBuilt(max_lines)
    /\ AnalyzerIdle

(***************************************************************************)
(* CommandWrapper.run up to the spawn, wrapper.py lines 20-67.  A run      *)
(* starts when no other run of this wrapper is in progress; the child of   *)
(* the previous run is gone and the console streams are writable.          *)
(***************************************************************************)
RunReady(maxRuns) ==
    /\ pc \in {"idle", "returned", "raised"}
    /\ runs < maxRuns
    /\ exitStatus = <<>>

\* captures that are kept from one run to the next
KeptCaptures == storage_list

\* output_lines and error_lines, wrapper.py lines 66-67: two new deques
NewCaptures == NoLines

\* a check that is made on what the directive filter leaves
NoArgsLeft(args) == Len(CleanArgs(args)) = 0

\* if not args, wrapper.py line 26: the check is on the list as given
NoArgs(args) == Len(args) = 0

RunCall(args) ==
    /\ \E tty \in BOOLEAN :
          /\ argv' = args
          /\ isatty' = tty
          /\ IF NoArgs(args)
             THEN /\ console' = UsageConsole
                  /\ ret' = <<UsageExit>>
                  /\ pc' = "returned"
                  /\ isattyCalls' = 0
                  /\ command_str' = ""
                  /\ should_analyze' = FALSE
             ELSE /\ command_str' = CommandStr(args)
                  /\ isattyCalls' = 1
                  /\ should_analyze' = ShouldAnalyze(args, tty)
                  /\ console' =
                        [stdout |-> <<>>,
                         stderr |-> PipeWarning(args, tty)]
                  /\ ret' = <<>>
                  /\ pc' = "spawn"
    /\ runs' = runs + 1
    /\ queue_obj' = NoLines
    /\ storage_list' = NewCaptures
    /\ popenCalls' = <<>>
    /\ child' = "none"
    /\ childCode' = <<>>
    /\ written' = [s \in Streams |-> 0]
    /\ pipe' = NoLines
    /\ pipeOpen' = [s \in Streams |-> FALSE]
    /\ rpc' = [s \in Streams |-> "none"]
    /\ exitPath' = [s \in Streams |-> "none"]
    /\ consoleBroken' = [s \in Streams |-> FALSE]
    /\ return_code' = <<>>
    /\ analyzeCalls' = <<>>
    /\ analyzed' = NotAnalyzed
    /\ UNCHANGED <<max_lines, closeCount, spawnCount, exitStatus>>
    /\ UNCHANGED <<configVars, analyzerVars>>

\* run is called on the CommandWrapper directly, as a library
RunBegin(argLists, maxRuns) ==
    /\ RunReady(maxRuns)
    /\ \E args \in argLists : RunCall(args)
    /\ UNCHANGED <<prev, sys_argv>>

\* the same, by a caller that keeps what the run before this one showed
RunObserved(argLists, maxRuns) ==
    /\ RunReady(maxRuns)
    /\ \E args \in argLists : RunCall(args)
    /\ prev' = IF runs = 0 THEN <<>> ELSE <<Snapshot>>
    /\ UNCHANGED sys_argv

(***************************************************************************)
(* main, cli.py lines 9-19: the process is started with sys.argv, main     *)
(* calls run(sys.argv[1:]) once and hands what run returns to sys.exit.    *)
(* The exit status a POSIX process reports is the low eight bits of the    *)
(* value given to sys.exit; an exception that leaves main ends the         *)
(* interpreter with status 1.                                              *)
(***************************************************************************)
ProgramName == "tern"

\* args = sys.argv[1:]
MainArgs(sysArgv) == Tail(sysArgv)

Main(argLists) ==
    /\ pc = "idle"
    /\ RunReady(1)
    /\ \E a \in argLists :
          /\ sys_argv' = <<ProgramName>> \o a
          /\ RunCall(MainArgs(<<ProgramName>> \o a))
    /\ UNCHANGED prev

\* an exit status that keeps the sign of the code
ExitStatusSigned(code) == code

\* the status the operating system reports for sys.exit(code)
ExitStatusOf(code) == code % 256

\* sys.exit(exit_code), cli.py lines 18-19
SysExit ==
    /\ pc = "returned"
    /\ sys_argv # <<>>
    /\ exitStatus = <<>>
    /\ exitStatus' = <<ExitStatusOf(ret[1])>>
    /\ UNCHANGED <<pc, runs, argv, isatty, isattyCalls, max_lines,
                   command_str, should_analyze, popenCalls, child, childCode,
                   written, pipe, pipeOpen, closeCount, rpc, exitPath,
                   queue_obj, storage_list, console, consoleBroken,
                   return_code, analyzeCalls, ret>>
    /\ UNCHANGED <<analyzed, spawnCount, prev, sys_argv>>
    /\ UNCHANGED <<configVars, analyzerVars>>

\* run raised: nothing in main catches it
Uncaught ==
    /\ pc = "raised"
    /\ sys_argv # <<>>
    /\ exitStatus = <<>>
    /\ exitStatus' = <<1>>
    /\ UNCHANGED <<pc, runs, argv, isatty, isattyCalls, max_lines,
                   command_str, should_analyze, popenCalls, child, childCode,
                   written, pipe, pipeOpen, closeCount, rpc, exitPath,
                   queue_obj, storage_list, console, consoleBroken,
                   return_code, analyzeCalls, ret>>
    /\ UNCHANGED <<analyzed, spawnCount, prev, sys_argv>>
    /\ UNCHANGED <<configVars, analyzerVars>>

\* subprocess.Popen returns a process, wrapper.py lines 69-78
SpawnOk ==
    /\ pc = "spawn"
    /\ popenCalls' = Append(popenCalls, command_str)
    /\ child' = "running"
    /\ pipeOpen' = [s \in Streams |-> TRUE]
    /\ spawnCount' = spawnCount + 1
    /\ pc' = "start_stdout"
    /\ UNCHANGED <<runs, argv, isatty, isattyCalls, max_lines, command_str,
                   should_analyze, childCode, written, pipe, closeCount, rpc,
                   exitPath, queue_obj, storage_list, console, consoleBroken,
                   return_code, analyzeCalls, ret>>
    /\ UNCHANGED <<analyzed, prev, sys_argv, exitStatus>>
    /\ UNCHANGED <<configVars, analyzerVars>>

\* a spawn failure whose handler does not return
SpawnFailNoReturn ==
    /\ pc = "spawn"
    /\ popenCalls' = Append(popenCalls, command_str)
    /\ console' = [console EXCEPT !.stderr = Append(@, SpawnErrorEntry)]
    /\ pc' = "start_stdout"
    /\ UNCHANGED <<runs, argv, isatty, isattyCalls, max_lines, command_str,
                   should_analyze, child, childCode, written, pipe, pipeOpen,
                   closeCount, rpc, exitPath, queue_obj, storage_list,
                   consoleBroken, return_code, analyzeCalls, ret>>
    /\ UNCHANGED <<analyzed, spawnCount, prev, sys_argv, exitStatus>>
    /\ UNCHANGED <<configVars, analyzerVars>>

\* subprocess.Popen raises, wrapper.py lines 79-81
SpawnFail ==
    /\ pc = "spawn"
    /\ popenCalls' = Append(popenCalls, command_str)
    /\ console' = [console EXCEPT !.stderr = Append(@, SpawnErrorEntry)]
    /\ ret' = <<1>>
    /\ pc' = "returned"
    /\ UNCHANGED <<runs, argv, isatty, isattyCalls, max_lines, command_str,
                   should_analyze, child, childCode, written, pipe, pipeOpen,
                   closeCount, rpc, exitPath, queue_obj, storage_list,
                   consoleBroken, return_code, analyzeCalls>>
    /\ UNCHANGED <<analyzed, spawnCount, prev, sys_argv, exitStatus>>
    /\ UNCHANGED <<configVars, analyzerVars>>

\* threads run one after the other: stderr is read once stdout is at its end
StartThreadInTurn(s) ==
    /\ pc = "start_" \o s
    /\ s = "stderr" => rpc.stdout = "done"
    /\ rpc' = [rpc EXCEPT ![s] = "read"]
    /\ pc' = IF s = "stdout" THEN "start_stderr" ELSE "wait"
    /\ UNCHANGED exitPath
    /\ UNCHANGED <<runs, argv, isatty, isattyCalls, max_lines, command_str,
                   should_analyze, popenCalls, child, childCode, written,
                   pipe, pipeOpen, closeCount, queue_obj, storage_list,
                   console, consoleBroken, return_code, analyzeCalls, ret>>
    /\ UNCHANGED <<analyzed, spawnCount, prev, sys_argv, exitStatus>>
    /\ UNCHANGED <<configVars, analyzerVars>>

\* stdout_thread.start() then stderr_thread.start(), wrapper.py lines 102-114
StartThread(s) ==
    /\ pc = "start_" \o s
    /\ rpc' = [rpc EXCEPT ![s] = "read"]
    /\ pc' = IF s = "stdout" THEN "start_stderr" ELSE "wait"
    /\ UNCHANGED exitPath
    /\ UNCHANGED <<runs, argv, isatty, isattyCalls, max_lines, command_str,
                   should_analyze, popenCalls, child, childCode, written,
                   pipe, pipeOpen, closeCount, queue_obj, storage_list,
                   console, consoleBroken, return_code, analyzeCalls, ret>>
    /\ UNCHANGED <<analyzed, spawnCount, prev, sys_argv, exitStatus>>
    /\ UNCHANGED <<configVars, analyzerVars>>

(***************************************************************************)
(* The child process.  It writes up to a limit of lines, both streams      *)
(* together; line i of a stream is a text line or a blank line; a write    *)
(* blocks while the pipe is full; a write to a pipe whose read end was     *)
(* closed kills the child with SIGPIPE or fails with EPIPE.                *)
(***************************************************************************)
StreamTag(s) == IF s = "stdout" THEN "out" ELSE "err"

ChildLines(s, i) == {StreamTag(s) \o ToString(i) \o "\n", "\n"}

ChildWrite(s, limit) ==
    /\ child = "running"
    /\ written.stdout + written.stderr < limit
    /\ pipeOpen[s]
    /\ Len(pipe[s]) < PipeCap
    /\ \E l \in ChildLines(s, written[s] + 1) :
          pipe' = [pipe EXCEPT ![s] = Append(@, l)]
    /\ written' = [written EXCEPT ![s] = @ + 1]
    /\ UNCHANGED <<pc, runs, argv, isatty, isattyCalls, max_lines,
                   command_str, should_analyze, popenCalls, child, childCode,
                   pipeOpen, closeCount, rpc, exitPath, queue_obj,
                   storage_list, console, consoleBroken, return_code,
                   analyzeCalls, ret>>
    /\ UNCHANGED <<analyzed, spawnCount, prev, sys_argv, exitStatus>>
    /\ UNCHANGED <<configVars, analyzerVars>>

ChildWriteClosed(s, limit) ==
    /\ child = "running"
    /\ written.stdout + written.stderr < limit
    /\ ~pipeOpen[s]
    /\ \/ /\ child' = "exited"
          /\ childCode' = << -SIGPIPE >>
          /\ UNCHANGED written
       \/ /\ written' = [written EXCEPT ![s] = @ + 1]
          /\ UNCHANGED <<child, childCode>>
    /\ UNCHANGED <<pc, runs, argv, isatty, isattyCalls, max_lines,
                   command_str, should_analyze, popenCalls, pipe, pipeOpen,
                   closeCount, rpc, exitPath, queue_obj, storage_list,
                   console, consoleBroken, return_code, analyzeCalls, ret>>
    /\ UNCHANGED <<analyzed, spawnCount, prev, sys_argv, exitStatus>>
    /\ UNCHANGED <<configVars, analyzerVars>>

ChildExit(codes) ==
    /\ child = "running"
    /\ \E k \in codes : childCode' = <<k>>
    /\ child' = "exited"
    /\ UNCHANGED <<pc, runs, argv, isatty, isattyCalls, max_lines,
                   command_str, should_analyze, popenCalls, written, pipe,
                   pipeOpen, closeCount, rpc, exitPath, queue_obj,
                   storage_list, console, consoleBroken, return_code,
                   analyzeCalls, ret>>
    /\ UNCHANGED <<analyzed, spawnCount, prev, sys_argv, exitStatus>>
    /\ UNCHANGED <<configVars, analyzerVars>>

(***************************************************************************)
(* read_output, wrapper.py lines 83-100: one thread per stream.            *)
(***************************************************************************)
\* a reader that keeps the lines of both streams in the stdout capture
ReadLineOneCapture(s) ==
    /\ rpc[s] = "read"
    /\ Len(pipe[s]) > 0
    /\ LET line == RStripNL(Head(pipe[s]))
       IN  /\ queue_obj' = [queue_obj EXCEPT ![s] = Append(@, line)]
           /\ storage_list' = [storage_list EXCEPT
                                 !.stdout = DequeAppend(@, line, max_lines)]
    /\ pipe' = [pipe EXCEPT ![s] = Tail(@)]
    /\ rpc' = [rpc EXCEPT ![s] = "echo"]
    /\ UNCHANGED exitPath
    /\ UNCHANGED <<pc, runs, argv, isatty, isattyCalls, max_lines,
                   command_str, should_analyze, popenCalls, child, childCode,
                   written, pipeOpen, closeCount, console, consoleBroken,
                   return_code, analyzeCalls, ret>>
    /\ UNCHANGED <<analyzed, spawnCount, prev, sys_argv, exitStatus>>
    /\ UNCHANGED <<configVars, analyzerVars>>

\* a reader whose queue holds the newest line only
ReadLineQueueOfOne(s) ==
    /\ rpc[s] = "read"
    /\ Len(pipe[s]) > 0
    /\ LET line == RStripNL(Head(pipe[s]))
       IN  /\ queue_obj' = [queue_obj EXCEPT ![s] = <<line>>]
           /\ storage_list' = [storage_list EXCEPT
                                 ![s] = DequeAppend(@, line, max_lines)]
    /\ pipe' = [pipe EXCEPT ![s] = Tail(@)]
    /\ rpc' = [rpc EXCEPT ![s] = "echo"]
    /\ UNCHANGED exitPath
    /\ UNCHANGED <<pc, runs, argv, isatty, isattyCalls, max_lines,
                   command_str, should_analyze, popenCalls, child, childCode,
                   written, pipeOpen, closeCount, console, consoleBroken,
                   return_code, analyzeCalls, ret>>
    /\ UNCHANGED <<analyzed, spawnCount, prev, sys_argv, exitStatus>>
    /\ UNCHANGED <<configVars, analyzerVars>>

\* a reader that passes over a line that is blank once it is stripped
ReadLineSkipsBlank(s) ==
    /\ rpc[s] = "read"
    /\ Len(pipe[s]) > 0
    /\ LET line == RStripNL(Head(pipe[s]))
       IN  IF line = ""
           THEN UNCHANGED <<queue_obj, storage_list, rpc>>
           ELSE /\ queue_obj' = [queue_obj EXCEPT ![s] = Append(@, line)]
                /\ storage_list' = [storage_list EXCEPT
                                      ![s] = DequeAppend(@, line, max_lines)]
                /\ rpc' = [rpc EXCEPT ![s] = "echo"]
    /\ pipe' = [pipe EXCEPT ![s] = Tail(@)]
    /\ UNCHANGED exitPath
    /\ UNCHANGED <<pc, runs, argv, isatty, isattyCalls, max_lines,
                   command_str, should_analyze, popenCalls, child, childCode,
                   written, pipeOpen, closeCount, console, consoleBroken,
                   return_code, analyzeCalls, ret>>
    /\ UNCHANGED <<analyzed, spawnCount, prev, sys_argv, exitStatus>>
    /\ UNCHANGED <<configVars, analyzerVars>>

\* pipe.readline() returns a line: strip, queue_obj.put, storage_list.append
ReadLine(s) ==
    /\ rpc[s] = "read"
    /\ Len(pipe[s]) > 0
    /\ LET line == RStripNL(Head(pipe[s]))
       IN  /\ queue_obj' = [queue_obj EXCEPT ![s] = Append(@, line)]
           /\ storage_list' = [storage_list EXCEPT
                                 ![s] = DequeAppend(@, line, max_lines)]
    /\ pipe' = [pipe EXCEPT ![s] = Tail(@)]
    /\ rpc' = [rpc EXCEPT ![s] = "echo"]
    /\ UNCHANGED exitPath
    /\ UNCHANGED <<pc, runs, argv, isatty, isattyCalls, max_lines,
                   command_str, should_analyze, popenCalls, child, childCode,
                   written, pipeOpen, closeCount, console, consoleBroken,
                   return_code, analyzeCalls, ret>>
    /\ UNCHANGED <<analyzed, spawnCount, prev, sys_argv, exitStatus>>
    /\ UNCHANGED <<configVars, analyzerVars>>

\* pipe.readline() returns '': the writer is gone and the pipe is drained
ReadEof(s) ==
    /\ rpc[s] = "read"
    /\ Len(pipe[s]) = 0
    /\ child = "exited"
    /\ rpc' = [rpc EXCEPT ![s] = "close"]
    /\ exitPath' = [exitPath EXCEPT ![s] = "eof"]
    /\ UNCHANGED <<pc, runs, argv, isatty, isattyCalls, max_lines,
                   command_str, should_analyze, popenCalls, child, childCode,
                   written, pipe, pipeOpen, closeCount, queue_obj,
                   storage_list, console, consoleBroken, return_code,
                   analyzeCalls, ret>>
    /\ UNCHANGED <<analyzed, spawnCount, prev, sys_argv, exitStatus>>
    /\ UNCHANGED <<configVars, analyzerVars>>

\* pipe.readline() raises: except Exception: pass
\* a read error that ends the thread before the finally clause
ReadErrorNoClose(s) ==
    /\ rpc[s] = "read"
    /\ rpc' = [rpc EXCEPT ![s] = "done"]
    /\ exitPath' = [exitPath EXCEPT ![s] = "read"]
    /\ UNCHANGED <<pc, runs, argv, isatty, isattyCalls, max_lines,
                   command_str, should_analyze, popenCalls, child, childCode,
                   written, pipe, pipeOpen, closeCount, queue_obj,
                   storage_list, console, consoleBroken, return_code,
                   analyzeCalls, ret>>
    /\ UNCHANGED <<analyzed, spawnCount, prev, sys_argv, exitStatus>>
    /\ UNCHANGED <<configVars, analyzerVars>>

\* pipe.readline raises, wrapper.py lines 85 and 97-98
ReadError(s) ==
    /\ rpc[s] = "read"
    /\ rpc' = [rpc EXCEPT ![s] = "close"]
    /\ exitPath' = [exitPath EXCEPT ![s] = "read"]
    /\ UNCHANGED <<pc, runs, argv, isatty, isattyCalls, max_lines,
                   command_str, should_analyze, popenCalls, child, childCode,
                   written, pipe, pipeOpen, closeCount, queue_obj,
                   storage_list, console, consoleBroken, return_code,
                   analyzeCalls, ret>>
    /\ UNCHANGED <<analyzed, spawnCount, prev, sys_argv, exitStatus>>
    /\ UNCHANGED <<configVars, analyzerVars>>

\* the position read_output takes after a failed echo, wrapper.py line 96
AfterEchoFailure == "close"

\* print(line, flush=True) succeeds
EchoOk(s) ==
    /\ rpc[s] = "echo"
    /\ ~consoleBroken[s]
    /\ console' = [console EXCEPT
                     ![s] = Append(@, Entry("relay", Last(queue_obj[s])))]
    /\ rpc' = [rpc EXCEPT ![s] = "read"]
    /\ UNCHANGED exitPath
    /\ UNCHANGED <<pc, runs, argv, isatty, isattyCalls, max_lines,
                   command_str, should_analyze, popenCalls, child, childCode,
                   written, pipe, pipeOpen, closeCount, queue_obj,
                   storage_list, consoleBroken, return_code, analyzeCalls,
                   ret>>
    /\ UNCHANGED <<analyzed, spawnCount, prev, sys_argv, exitStatus>>
    /\ UNCHANGED <<configVars, analyzerVars>>

\* a failed echo that takes the line out of the capture again
EchoFailDropsLine(s) ==
    /\ rpc[s] = "echo"
    /\ consoleBroken' = [consoleBroken EXCEPT ![s] = TRUE]
    /\ rpc' = [rpc EXCEPT ![s] = AfterEchoFailure]
    /\ exitPath' = [exitPath EXCEPT ![s] = "echo"]
    /\ storage_list' = [storage_list EXCEPT
                          ![s] = SubSeq(@, 1, Len(@) - 1)]
    /\ UNCHANGED <<pc, runs, argv, isatty, isattyCalls, max_lines,
                   command_str, should_analyze, popenCalls, child, childCode,
                   written, pipe, pipeOpen, closeCount, queue_obj,
                   console, return_code, analyzeCalls, ret>>
    /\ UNCHANGED <<analyzed, spawnCount, prev, sys_argv, exitStatus>>
    /\ UNCHANGED <<configVars, analyzerVars>>

\* print(line, flush=True) raises BrokenPipeError or IOError: break
EchoFail(s) ==
    /\ rpc[s] = "echo"
    /\ consoleBroken' = [consoleBroken EXCEPT ![s] = TRUE]
    /\ rpc' = [rpc EXCEPT ![s] = AfterEchoFailure]
    /\ exitPath' = [exitPath EXCEPT
                      ![s] = IF AfterEchoFailure = "close" THEN "echo" ELSE @]
    /\ UNCHANGED <<pc, runs, argv, isatty, isattyCalls, max_lines,
                   command_str, should_analyze, popenCalls, child, childCode,
                   written, pipe, pipeOpen, closeCount, queue_obj,
                   storage_list, console, return_code, analyzeCalls, ret>>
    /\ UNCHANGED <<analyzed, spawnCount, prev, sys_argv, exitStatus>>
    /\ UNCHANGED <<configVars, analyzerVars>>

\* a reader that closes the pipes of both streams when it ends
ClosePipeOfBoth(s) ==
    /\ rpc[s] = "close"
    /\ pipeOpen' = [t \in Streams |-> FALSE]
    /\ closeCount' = [closeCount EXCEPT ![s] = @ + 1]
    /\ rpc' = [rpc EXCEPT ![s] = "done"]
    /\ UNCHANGED exitPath
    /\ UNCHANGED <<pc, runs, argv, isatty, isattyCalls, max_lines,
                   command_str, should_analyze, popenCalls, child, childCode,
                   written, pipe, queue_obj, storage_list, console,
                   consoleBroken, return_code, analyzeCalls, ret>>
    /\ UNCHANGED <<analyzed, spawnCount, prev, sys_argv, exitStatus>>
    /\ UNCHANGED <<configVars, analyzerVars>>

\* finally: pipe.close()
ClosePipe(s) ==
    /\ rpc[s] = "close"
    /\ pipeOpen' = [pipeOpen EXCEPT ![s] = FALSE]
    /\ closeCount' = [closeCount EXCEPT ![s] = @ + 1]
    /\ rpc' = [rpc EXCEPT ![s] = "done"]
    /\ UNCHANGED exitPath
    /\ UNCHANGED <<pc, runs, argv, isatty, isattyCalls, max_lines,
                   command_str, should_analyze, popenCalls, child, childCode,
                   written, pipe, queue_obj, storage_list, console,
                   consoleBroken, return_code, analyzeCalls, ret>>
    /\ UNCHANGED <<analyzed, spawnCount, prev, sys_argv, exitStatus>>
    /\ UNCHANGED <<configVars, analyzerVars>>

(***************************************************************************)
(* run after the threads are started, wrapper.py lines 116-123.            *)
(***************************************************************************)
\* return_code = process.wait()
Wait ==
    /\ pc = "wait"
    /\ child = "exited"
    /\ return_code' = childCode
    /\ pc' = "join_stdout"
    /\ UNCHANGED <<runs, argv, isatty, isattyCalls, max_lines, command_str,
                   should_analyze, popenCalls, child, childCode, written,
                   pipe, pipeOpen, closeCount, rpc, exitPath, queue_obj,
                   storage_list, console, consoleBroken, analyzeCalls, ret>>
    /\ UNCHANGED <<analyzed, spawnCount, prev, sys_argv, exitStatus>>
    /\ UNCHANGED <<configVars, analyzerVars>>

\* a join that does not wait for the thread
JoinThreadNoWait(s) ==
    /\ pc = "join_" \o s
    /\ pc' = IF s = "stdout" THEN "join_stderr" ELSE "gate"
    /\ UNCHANGED <<runs, argv, isatty, isattyCalls, max_lines, command_str,
                   should_analyze, popenCalls, child, childCode, written,
                   pipe, pipeOpen, closeCount, rpc, exitPath, queue_obj,
                   storage_list, console, consoleBroken, return_code,
                   analyzeCalls, ret>>
    /\ UNCHANGED <<analyzed, spawnCount, prev, sys_argv, exitStatus>>
    /\ UNCHANGED <<configVars, analyzerVars>>

\* a run that joins the stdout thread only
JoinStdoutOnly(s) ==
    /\ pc = "join_" \o s
    /\ s = "stdout" => rpc[s] = "done"
    /\ pc' = IF s = "stdout" THEN "join_stderr" ELSE "gate"
    /\ UNCHANGED <<runs, argv, isatty, isattyCalls, max_lines, command_str,
                   should_analyze, popenCalls, child, childCode, written,
                   pipe, pipeOpen, closeCount, rpc, exitPath, queue_obj,
                   storage_list, console, consoleBroken, return_code,
                   analyzeCalls, ret>>
    /\ UNCHANGED <<analyzed, spawnCount, prev, sys_argv, exitStatus>>
    /\ UNCHANGED <<configVars, analyzerVars>>

\* stdout_thread.join() then stderr_thread.join()
JoinThread(s) ==
    /\ pc = "join_" \o s
    /\ rpc[s] = "done"
    /\ pc' = IF s = "stdout" THEN "join_stderr" ELSE "gate"
    /\ UNCHANGED <<runs, argv, isatty, isattyCalls, max_lines, command_str,
                   should_analyze, popenCalls, child, childCode, written,
                   pipe, pipeOpen, closeCount, rpc, exitPath, queue_obj,
                   storage_list, console, consoleBroken, return_code,
                   analyzeCalls, ret>>
    /\ UNCHANGED <<analyzed, spawnCount, prev, sys_argv, exitStatus>>
    /\ UNCHANGED <<configVars, analyzerVars>>

\* a gate that looks at the stdout capture only
AnalysisGateStdoutOnly ==
    /\ should_analyze
    /\ Len(storage_list.stdout) > 0

\* a gate that asks sys.stdout.isatty() again
AnalysisGateAsksAgain ==
    /\ isatty
    /\ ~SkipAi(argv)
    /\ (Len(storage_list.stdout) > 0 \/ Len(storage_list.stderr) > 0)

\* the condition of wrapper.py line 120
AnalysisGate ==
    /\ should_analyze
    /\ (Len(storage_list.stdout) > 0 \/ Len(storage_list.stderr) > 0)

\* arguments built from every line read instead of the captures
AnalyzeArgsAllLines ==
    [command |-> command_str,
     output |-> Join(queue_obj.stdout, "\n"),
     errors |-> Join(queue_obj.stderr, "\n"),
     return_code |-> return_code[1]]

\* the arguments _analyze_and_display hands to ai_analyzer.analyze
AnalyzeArgs ==
    [command |-> command_str,
     output |-> Join(storage_list.stdout, "\n"),
     errors |-> Join(storage_list.stderr, "\n"),
     return_code |-> return_code[1]]

\* what ai_analyzer.analyze answers: None, an empty text or a commentary
AnalysisResults == {<<>>, <<"">>, <<"OK">>}

\* a write to a console stream outside read_output can fail only if the
\* stream has already failed during this run
WriteOutcomes(s) == IF consoleBroken[s] THEN {"ok", "fail"} ELSE {"ok"}

\* the except clause of _analyze_and_display, wrapper.py lines 147-151
Handler(w) ==
    IF w = "ok"
    THEN /\ console' = [console EXCEPT !.stderr = Append(@, WrapperErrorEntry)]
         /\ pc' = "return"
    ELSE /\ pc' = "raised"
         /\ UNCHANGED console

\* a display that takes an empty text for a commentary
AnalyzeAndDisplayNotNone ==
    /\ pc = "gate"
    /\ AnalysisGate
    /\ analyzeCalls' = Append(analyzeCalls, AnalyzeArgs)
    /\ \/ \E result \in AnalysisResults :
            /\ analyzed' = [state |-> "returned", value |-> result]
            /\ IF result # <<>>
               THEN \E w \in WriteOutcomes("stdout") :
                       IF w = "ok"
                       THEN /\ console' = [console EXCEPT
                                    !.stdout = @ \o BannerEntries(result[1])]
                            /\ pc' = "return"
                       ELSE \E w2 \in WriteOutcomes("stderr") : Handler(w2)
               ELSE /\ pc' = "return"
                    /\ UNCHANGED console
       \/ /\ analyzed' = [state |-> "raised", value |-> <<>>]
          /\ \E w \in WriteOutcomes("stderr") : Handler(w)
    /\ UNCHANGED <<runs, argv, isatty, isattyCalls, max_lines, command_str,
                   should_analyze, popenCalls, child, childCode, written,
                   pipe, pipeOpen, closeCount, rpc, exitPath, queue_obj,
                   storage_list, consoleBroken, return_code, ret>>
    /\ UNCHANGED <<spawnCount, prev, sys_argv, exitStatus>>
    /\ UNCHANGED <<configVars, analyzerVars>>

\* _analyze_and_display is called, wrapper.py lines 120-121 and 126-151
AnalyzeAndDisplay ==
    /\ pc = "gate"
    /\ AnalysisGate
    /\ analyzeCalls' = Append(analyzeCalls, AnalyzeArgs)
    /\ \/ \E result \in AnalysisResults :
            /\ analyzed' = [state |-> "returned", value |-> result]
            /\ IF result # <<>> /\ result[1] # ""
               THEN \E w \in WriteOutcomes("stdout") :
                       IF w = "ok"
                       THEN /\ console' = [console EXCEPT
                                    !.stdout = @ \o BannerEntries(result[1])]
                            /\ pc' = "return"
                       ELSE \E w2 \in WriteOutcomes("stderr") : Handler(w2)
               ELSE /\ pc' = "return"
                    /\ UNCHANGED console
       \/ /\ analyzed' = [state |-> "raised", value |-> <<>>]
          /\ \E w \in WriteOutcomes("stderr") : Handler(w)
    /\ UNCHANGED <<runs, argv, isatty, isattyCalls, max_lines, command_str,
                   should_analyze, popenCalls, child, childCode, written,
                   pipe, pipeOpen, closeCount, rpc, exitPath, queue_obj,
                   storage_list, consoleBroken, return_code, ret>>
    /\ UNCHANGED <<spawnCount, prev, sys_argv, exitStatus>>
    /\ UNCHANGED <<configVars, analyzerVars>>

\* the condition of line 120 is false
SkipAnalysis ==
    /\ pc = "gate"
    /\ ~AnalysisGate
    /\ pc' = "return"
    /\ UNCHANGED <<runs, argv, isatty, isattyCalls, max_lines, command_str,
                   should_analyze, popenCalls, child, childCode, written,
                   pipe, pipeOpen, closeCount, rpc, exitPath, queue_obj,
                   storage_list, console, consoleBroken, return_code,
                   analyzeCalls, ret>>
    /\ UNCHANGED <<analyzed, spawnCount, prev, sys_argv, exitStatus>>
    /\ UNCHANGED <<configVars, analyzerVars>>

\* return return_code, wrapper.py line 123
Return ==
    /\ pc = "return"
    /\ ret' = return_code
    /\ pc' = "returned"
    /\ UNCHANGED <<runs, argv, isatty, isattyCalls, max_lines, command_str,
                   should_analyze, popenCalls, child, childCode, written,
                   pipe, pipeOpen, closeCount, rpc, exitPath, queue_obj,
                   storage_list, console, consoleBroken, return_code,
                   analyzeCalls>>
    /\ UNCHANGED <<analyzed, spawnCount, prev, sys_argv, exitStatus>>
    /\ UNCHANGED <<configVars, analyzerVars>>

(***************************************************************************)
(* The surroundings of a run in finer steps: the standard input the child  *)
(* is given, a standard output that stops or starts being a terminal       *)
(* while the run is in progress, and print, which writes the text of a     *)
(* line and its terminator in two writes.                                  *)
(***************************************************************************)
\* subprocess.Popen is called without stdin=, wrapper.py lines 70-77: the
\* child has the standard input of the tool
PopenStdin == "inherited"

\* the child reads its standard input and no input is there
ChildAwaitInput ==
    /\ child = "running"
    /\ PopenStdin = "inherited"
    /\ child' = "awaiting_input"
    /\ UNCHANGED <<pc, runs, argv, isatty, isattyCalls, max_lines,
                   command_str, should_analyze, popenCalls, childCode,
                   written, pipe, pipeOpen, closeCount, rpc, exitPath,
                   queue_obj, storage_list, console, consoleBroken,
                   return_code, analyzeCalls, ret>>
    /\ UNCHANGED <<analyzed, spawnCount, prev, sys_argv, exitStatus>>
    /\ UNCHANGED <<configVars, analyzerVars>>

\* input arrives on the standard input of the tool, or it ends
InputArrives ==
    /\ child = "awaiting_input"
    /\ child' = "running"
    /\ UNCHANGED <<pc, runs, argv, isatty, isattyCalls, max_lines,
                   command_str, should_analyze, popenCalls, childCode,
                   written, pipe, pipeOpen, closeCount, rpc, exitPath,
                   queue_obj, storage_list, console, consoleBroken,
                   return_code, analyzeCalls, ret>>
    /\ UNCHANGED <<analyzed, spawnCount, prev, sys_argv, exitStatus>>
    /\ UNCHANGED <<configVars, analyzerVars>>

\* sys.stdout.isatty() would answer differently from now on
TtyChange ==
    /\ pc \notin {"idle", "returned", "raised"}
    /\ isatty' = ~isatty
    /\ UNCHANGED <<pc, runs, argv, isattyCalls, max_lines, command_str,
                   should_analyze, popenCalls, child, childCode, written,
                   pipe, pipeOpen, closeCount, rpc, exitPath, queue_obj,
                   storage_list, console, consoleBroken, return_code,
                   analyzeCalls, ret>>
    /\ UNCHANGED <<analyzed, spawnCount, prev, sys_argv, exitStatus>>
    /\ UNCHANGED <<configVars, analyzerVars>>

\* one write of a reader thread to a console stream
Chunk(s, text) == [src |-> "relay", text |-> text, by |-> s]

\* a reader that prints to sys.stdout whatever stream it reads
EchoTargetStdout(s) == "stdout"

\* the stream read_output prints to, wrapper.py lines 91-94
EchoTarget(s) == s

\* print(line, ...): the text of the line is written
EchoText(s) ==
    /\ rpc[s] = "echo"
    /\ ~consoleBroken[s]
    /\ console' = [console EXCEPT ![EchoTarget(s)] =
                        Append(@, Chunk(s, Last(queue_obj[s])))]
    /\ rpc' = [rpc EXCEPT ![s] = "echo_end"]
    /\ UNCHANGED <<pc, runs, argv, isatty, isattyCalls, max_lines,
                   command_str, should_analyze, popenCalls, child, childCode,
                   written, pipe, pipeOpen, closeCount, exitPath, queue_obj,
                   storage_list, consoleBroken, return_code, analyzeCalls,
                   ret>>
    /\ UNCHANGED <<analyzed, spawnCount, prev, sys_argv, exitStatus>>
    /\ UNCHANGED <<configVars, analyzerVars>>

\* print(line, ...): the terminator is written, and the stream flushed
EchoEnd(s) ==
    /\ rpc[s] = "echo_end"
    /\ console' = [console EXCEPT ![EchoTarget(s)] =
                        Append(@, Chunk(s, "\n"))]
    /\ rpc' = [rpc EXCEPT ![s] = "read"]
    /\ UNCHANGED <<pc, runs, argv, isatty, isattyCalls, max_lines,
                   command_str, should_analyze, popenCalls, child, childCode,
                   written, pipe, pipeOpen, closeCount, exitPath, queue_obj,
                   storage_list, consoleBroken, return_code, analyzeCalls,
                   ret>>
    /\ UNCHANGED <<analyzed, spawnCount, prev, sys_argv, exitStatus>>
    /\ UNCHANGED <<configVars, analyzerVars>>

(***************************************************************************)
(* AIAnalyzer, ai_analyzer.py.  analyze is modelled step by step; the      *)
(* model endpoint is the environment: a call of invoke_model answers with  *)
(* a commentary, with an empty text, or raises.                            *)
(***************************************************************************)
AnalyzerErrorEntry == Entry("analyzer", "ERROR")

DebugEntry == Entry("analyzer", "[DEBUG]")

\* self.config.get('debug', False), taken as a condition
DebugOn == Truthy(Get(config, "debug", BoolV(FALSE)))

\* _initialize_bedrock, lines 17-37: no client without a region, and
\* creating the client may fail
InitializeBedrock ==
    /\ apc = "new"
    /\ cpc = "ready"
    /\ apc' = "idle"
    /\ \E made \in BOOLEAN :
          /\ made => Truthy(Get(config, "bedrock.region", NoneV))
          /\ bedrock_client' = made
          /\ console' = IF made THEN console
                        ELSE [console EXCEPT !.stderr =
                                @ \o <<AnalyzerErrorEntry, AnalyzerErrorEntry>>]
    /\ UNCHANGED <<pc, runs, argv, isatty, isattyCalls, max_lines,
                   command_str, should_analyze, popenCalls, child, childCode,
                   written, pipe, pipeOpen, closeCount, rpc, exitPath,
                   queue_obj, storage_list, consoleBroken, return_code,
                   analyzeCalls, ret>>
    /\ UNCHANGED <<analyzed, spawnCount, prev, sys_argv, exitStatus>>
    /\ UNCHANGED <<configVars, analyzeArgs, prompt, response, invokeCalls,
                   analyzeResult>>

\* analyze is entered, lines 39-42
AnalyzeCall(inputs) ==
    /\ apc = "idle"
    /\ \E a \in inputs :
          /\ analyzeArgs' = <<a>>
          /\ IF bedrock_client
             THEN /\ apc' = "try"
                  /\ UNCHANGED analyzeResult
             ELSE /\ apc' = "done"
                  /\ analyzeResult' = [state |-> "returned", value |-> <<>>]
    /\ UNCHANGED <<pc, runs, argv, isatty, isattyCalls, max_lines,
                   command_str, should_analyze, popenCalls, child, childCode,
                   written, pipe, pipeOpen, closeCount, rpc, exitPath,
                   queue_obj, storage_list, console, consoleBroken,
                   return_code, analyzeCalls, ret>>
    /\ UNCHANGED <<analyzed, spawnCount, prev, sys_argv, exitStatus>>
    /\ UNCHANGED <<configVars, bedrock_client, prompt, response, invokeCalls>>

\* text[:limit]: a TypeError unless the limit is an integer or None
SliceOk(limit) == limit.kind \in {"int", "bool", "none"}

Slice(text, limit) ==
    CASE limit.kind = "none" -> text
      [] limit.kind = "bool" -> Prefix(text, IF limit.b THEN 1 ELSE 0)
      [] limit.n >= 0 -> Prefix(text, limit.n)
      [] OTHER -> SubSeq(text, 1, Len(text) + limit.n)

\* _build_prompt, lines 67-87
OutputLimit == Get(config, "limits.output_chars", IntV(DefaultOutputChars))

ErrorLimit == Get(config, "limits.error_chars", IntV(DefaultErrorChars))

PromptFails(a) ==
    \/ a.output # "" /\ ~SliceOk(OutputLimit)
    \/ a.errors # "" /\ ~SliceOk(ErrorLimit)

BuildPrompt(a) ==
    [command |-> a.command,
     return_code |-> a.return_code,
     output |-> IF a.output = "" THEN "(no output)"
                ELSE Slice(a.output, OutputLimit),
     errors |-> IF a.errors = "" THEN "(no errors)"
                ELSE Slice(a.errors, ErrorLimit)]

\* a debug print happens only with debug on, and goes to sys.stdout
DebugWrites == IF DebugOn THEN WriteOutcomes("stdout") ELSE {"ok"}

DebugEntries(n) == IF DebugOn THEN [i \in 1..n |-> DebugEntry] ELSE <<>>

\* the try block up to the prompt, lines 44-51
PromptStep ==
    /\ apc = "try"
    /\ \E w1 \in DebugWrites, w2 \in DebugWrites :
          IF w1 = "fail"
          THEN /\ apc' = "except"
               /\ UNCHANGED <<prompt, console>>
          ELSE IF PromptFails(analyzeArgs[1]) \/ w2 = "fail"
          THEN /\ apc' = "except"
               /\ console' = [console EXCEPT !.stdout = @ \o DebugEntries(1)]
               /\ UNCHANGED prompt
          ELSE /\ apc' = "invoke"
               /\ prompt' = <<BuildPrompt(analyzeArgs[1])>>
               /\ console' = [console EXCEPT !.stdout = @ \o DebugEntries(2)]
    /\ UNCHANGED <<pc, runs, argv, isatty, isattyCalls, max_lines,
                   command_str, should_analyze, popenCalls, child, childCode,
                   written, pipe, pipeOpen, closeCount, rpc, exitPath,
                   queue_obj, storage_list, consoleBroken, return_code,
                   analyzeCalls, ret>>
    /\ UNCHANGED <<analyzed, spawnCount, prev, sys_argv, exitStatus>>
    /\ UNCHANGED <<configVars, bedrock_client, analyzeArgs, response,
                   invokeCalls, analyzeResult>>

\* what bedrock_client.invoke_model does: a text extracted from the
\* response, or an exception
ModelAnswers == {<<"text", "OK">>, <<"text", "">>, <<"raise", "">>}

\* an except clause of _invoke_model, lines 153-201: it reports on
\* sys.stderr and returns None; if its report fails, the failure leaves
\* _invoke_model
InvokeHandler ==
    \E w \in WriteOutcomes("stderr") :
        IF w = "ok"
        THEN /\ apc' = "respond"
             /\ response' = <<>>
             /\ console' = [console EXCEPT !.stderr =
                                Append(@, AnalyzerErrorEntry)]
        ELSE /\ apc' = "except"
             /\ UNCHANGED <<response, console>>

\* response = self._invoke_model(prompt), line 53 with lines 89-201
InvokeModel ==
    /\ apc = "invoke"
    /\ LET model_id == Get(config, "bedrock.model_id", NoneV)
       IN  IF ~Truthy(model_id)
           THEN /\ UNCHANGED invokeCalls
                /\ InvokeHandler
           ELSE \E w1 \in DebugWrites, w2 \in DebugWrites :
                   IF w1 = "fail" \/ model_id.kind # "str"
                   THEN /\ UNCHANGED invokeCalls
                        /\ InvokeHandler
                   ELSE /\ invokeCalls' = Append(invokeCalls, prompt[1])
                        /\ \E answer \in ModelAnswers :
                              IF answer[1] = "raise" \/ w2 = "fail"
                              THEN InvokeHandler
                              ELSE /\ apc' = "respond"
                                   /\ response' = <<answer[2]>>
                                   /\ console' = [console EXCEPT !.stdout =
                                                    @ \o DebugEntries(5)]
    /\ UNCHANGED <<pc, runs, argv, isatty, isattyCalls, max_lines,
                   command_str, should_analyze, popenCalls, child, childCode,
                   written, pipe, pipeOpen, closeCount, rpc, exitPath,
                   queue_obj, storage_list, consoleBroken, return_code,
                   analyzeCalls, ret>>
    /\ UNCHANGED <<analyzed, spawnCount, prev, sys_argv, exitStatus>>
    /\ UNCHANGED <<configVars, bedrock_client, analyzeArgs, prompt,
                   analyzeResult>>

\* the end of the try block, lines 55-58
AnalyzeReturn ==
    /\ apc = "respond"
    /\ \E w \in DebugWrites :
          IF w = "ok"
          THEN /\ apc' = "done"
               /\ analyzeResult' = [state |-> "returned", value |-> response]
               /\ console' = [console EXCEPT !.stdout = @ \o DebugEntries(1)]
          ELSE /\ apc' = "except"
               /\ UNCHANGED <<analyzeResult, console>>
    /\ UNCHANGED <<pc, runs, argv, isatty, isattyCalls, max_lines,
                   command_str, should_analyze, popenCalls, child, childCode,
                   written, pipe, pipeOpen, closeCount, rpc, exitPath,
                   queue_obj, storage_list, consoleBroken, return_code,
                   analyzeCalls, ret>>
    /\ UNCHANGED <<analyzed, spawnCount, prev, sys_argv, exitStatus>>
    /\ UNCHANGED <<configVars, bedrock_client, analyzeArgs, prompt, response,
                   invokeCalls>>

\* the except clause of analyze, lines 60-65: the report is printed to
\* sys.stderr outside any try
AnalyzeExcept ==
    /\ apc = "except"
    /\ apc' = "done"
    /\ \E w \in WriteOutcomes("stderr") :
          IF w = "ok"
          THEN /\ analyzeResult' = [state |-> "returned", value |-> <<>>]
               /\ console' = [console EXCEPT !.stderr =
                                Append(@, AnalyzerErrorEntry)]
          ELSE /\ analyzeResult' = [state |-> "raised", value |-> <<>>]
               /\ UNCHANGED console
    /\ UNCHANGED <<pc, runs, argv, isatty, isattyCalls, max_lines,
                   command_str, should_analyze, popenCalls, child, childCode,
                   written, pipe, pipeOpen, closeCount, rpc, exitPath,
                   queue_obj, storage_list, consoleBroken, return_code,
                   analyzeCalls, ret>>
    /\ UNCHANGED <<analyzed, spawnCount, prev, sys_argv, exitStatus>>
    /\ UNCHANGED <<configVars, bedrock_client, analyzeArgs, prompt, response,
                   invokeCalls>>

\* a console stream stops accepting writes before analyze is called: its
\* reader went away during the relay
StreamFails(s) ==
    /\ apc = "idle"
    /\ ~consoleBroken[s]
    /\ consoleBroken' = [consoleBroken EXCEPT ![s] = TRUE]
    /\ UNCHANGED <<pc, runs, argv, isatty, isattyCalls, max_lines,
                   command_str, should_analyze, popenCalls, child, childCode,
                   written, pipe, pipeOpen, closeCount, rpc, exitPath,
                   queue_obj, storage_list, console, return_code,
                   analyzeCalls, ret>>
    /\ UNCHANGED <<analyzed, spawnCount, prev, sys_argv, exitStatus>>
    /\ UNCHANGED <<configVars, analyzerVars>>

(***************************************************************************)
(* Specifications.  Spec explores the streams of one process started       *)
(* through main: few argument lists, the capacity MaxCap,                 *)
(* children that write up to MaxLines lines, both streams together, reads  *)
(* and echoes that can fail.  SpecArgv explores the argument lists: every  *)
(* list of up to MaxArgs tokens, the default capacity, a child that writes *)
(* at most one line to stdout and exits with 0, no read or echo failure.   *)
(***************************************************************************)
ArgLists ==
    { <<>>, <<"ls">>, <<"--no-ai", "ls">> }

Tokens ==
    {"--no-ai", "--ai-verbose", "--ai-summary", "ls", "", " ", "a;b", "x--no-ai"}

ArgListsWide == UNION {[1..n -> Tokens] : n \in 0..MaxArgs}

Capacities == {0, 1, MaxCap}

\* one capacity here; SpecRelay goes through the others
Init == InitWith({MaxCap})

Threads ==
    \E s \in Streams :
        \/ StartThread(s)
        \/ ReadLine(s)
        \/ ReadEof(s)
        \/ ReadError(s)
        \/ EchoOk(s)
        \/ EchoFail(s)
        \/ ClosePipe(s)
        \/ JoinThread(s)

Control ==
    \/ SpawnOk
    \/ SpawnFail
    \/ Wait
    \/ AnalyzeAndDisplay
    \/ SkipAnalysis
    \/ Return

Next ==
    \/ Main(ArgLists)
    \/ SysExit
    \/ Uncaught
    \/ Control
    \/ Threads
    \/ \E s \in Streams : ChildWrite(s, MaxLines)
    \/ \E s \in Streams : ChildWriteClosed(s, MaxLines)
    \/ ChildExit(ExitCodes)

Spec == Init /\ [][Next]_vars

InitArgv == InitWith({DefaultMaxLines})

ThreadsNoFailure ==
    \E s \in Streams :
        \/ StartThread(s)
        \/ ReadLine(s)
        \/ ReadEof(s)
        \/ EchoOk(s)
        \/ ClosePipe(s)
        \/ JoinThread(s)

NextArgv ==
    \/ RunBegin(ArgListsWide, 1)
    \/ Control
    \/ ThreadsNoFailure
    \/ ChildWrite("stdout", 1)
    \/ ChildExit({0})

SpecArgv == InitArgv /\ [][NextArgv]_vars

(***************************************************************************)
(* SpecRuns is the slice of repeated calls: run is called up to MaxRuns    *)
(* times on one CommandWrapper, with commands whose pipe warning is at the *)
(* width limit and one character over it; each child writes at most one    *)
(* line and exits with 0; reads and echoes can fail.                       *)
(***************************************************************************)
ArgsFit == <<"grep", "-rn", "--include=*.py read_output /usr/lib/py">>

ArgsOver == <<"grep", "-rn", "--include=*.py read_output /usr/lib/py3">>

ArgListsRuns ==
    { <<>>, <<"echo", "hello">>, <<"--no-ai", "echo", "hello">>,
      ArgsFit, ArgsOver }

InitRuns == InitWith({MaxCap})

NextRuns ==
    \/ RunBegin(ArgListsRuns, MaxRuns)
    \/ Control
    \/ Threads
    \/ \E s \in Streams : ChildWrite(s, 1)
    \/ \E s \in Streams : ChildWriteClosed(s, 1)
    \/ ChildExit({0})

SpecRuns == InitRuns /\ [][NextRuns]_vars

(***************************************************************************)
(* SpecPair is the slice that compares two runs: run is called twice on    *)
(* one CommandWrapper by a caller that keeps what the first run showed;    *)
(* the command is given with and without '--no-ai', on a terminal or not;  *)
(* each child writes at most one line and exits with 0; echoes can fail.   *)
(***************************************************************************)
ArgListsPair == { <<"ls">>, <<"--no-ai", "ls">> }

NextPair ==
    \/ RunObserved(ArgListsPair, 2)
    \/ Control
    \/ ThreadsNoFailure
    \/ \E s \in Streams : EchoFail(s)
    \/ \E s \in Streams : ChildWrite(s, 1)
    \/ ChildExit({0})

SpecPair == InitRuns /\ [][NextPair]_vars

(***************************************************************************)
(* SpecLive is the scheduling slice: one command, a child that writes up   *)
(* to MaxLines lines in any order through pipes of PipeCap lines, console  *)
(* writes that succeed.  The operating system schedules every thread that  *)
(* can take a step: weak fairness for each read_output thread and for the  *)
(* control thread.  Nothing obliges the child to write or to exit, and     *)
(* nothing obliges a read to fail.                                         *)
(***************************************************************************)
Relay(s) == ReadLine(s) \/ ReadEof(s) \/ EchoOk(s) \/ ClosePipe(s)

ControlThread ==
    \/ Control
    \/ \E s \in Streams : StartThread(s) \/ JoinThread(s)

InitLive == InitWith({MaxCap})

NextLive ==
    \/ RunBegin({<<"ls">>}, 1)
    \/ ControlThread
    \/ \E s \in Streams : Relay(s) \/ ReadError(s)
    \/ \E s \in Streams : ChildWrite(s, MaxLines)
    \/ \E s \in Streams : ChildWriteClosed(s, MaxLines)
    \/ ChildExit({0})

Fairness ==
    /\ WF_vars(ControlThread)
    /\ \A s \in Streams : WF_vars(Relay(s))

SpecLive == InitLive /\ [][NextLive]_vars /\ Fairness

(***************************************************************************)
(* SpecConfig explores the construction of a Config: Config.__init__ from  *)
(* line 59 on, for a file that is missing, unreadable or a mapping with    *)
(* the identifiers and up to MaxSettings other settings, and an            *)
(* environment with up to MaxSettings settings besides the identifiers.    *)
(***************************************************************************)
FileIds ==
    {<<"bedrock.model_id", StrV("m-file")>>,
     <<"bedrock.region", StrV("r-file")>>}

FileSettings ==
    {<<"bedrock.timeout", IntV(100)>>, <<"bedrock.timeout", IntV(7200)>>,
     <<"bedrock.timeout", IntV(-5)>>, <<"bedrock.timeout", StrV("abc")>>,
     <<"limits.output_chars", IntV(3)>>, <<"limits.error_chars", IntV(3)>>,
     <<"limits.max_lines", IntV(2)>>, <<"debug", BoolV(TRUE)>>}

EnvIds ==
    {<<"TERN_BEDROCK_MODEL_ID", "m-env">>, <<"TERN_BEDROCK_MODEL_ID", "">>,
     <<"TERN_BEDROCK_REGION", "r-env">>}

EnvChoices ==
    {<<"TERN_BEDROCK_TIMEOUT", "30">>, <<"TERN_BEDROCK_TIMEOUT", "9999">>,
     <<"TERN_BEDROCK_TIMEOUT", "-5">>, <<"TERN_LIMITS_OUTPUT_CHARS", "abc">>,
     <<"TERN_LIMITS_ERROR_CHARS", "1.5">>, <<"TERN_LIMITS_MAX_LINES", "1">>,
     <<"TERN_LIMITS_MAX_LINES", "007">>, <<"TERN_DEBUG", "false">>,
     <<"TERN_DEBUG", "TRUE">>, <<"TERN_DEBUG", "1">>}

\* the mappings that take their pairs from ids and at most MaxSettings
\* pairs from choices, one value per name
Mappings(ids, choices) ==
    {[k \in {p[1] : p \in S} |-> (CHOOSE p \in S : p[1] = k)[2]] :
        S \in {I \cup C : I \in SUBSET ids,
               C \in {D \in SUBSET choices : Cardinality(D) <= MaxSettings}}
             \ {T \in SUBSET (ids \cup choices) :
                    \E p, q \in T : p # q /\ p[1] = q[1]}}

ConfigFiles ==
    {[exists |-> FALSE, parses |-> FALSE, content |-> <<>>],
     [exists |-> TRUE, parses |-> FALSE, content |-> <<>>]}
    \cup {[exists |-> TRUE, parses |-> TRUE, content |-> m] :
             m \in Mappings(FileIds, FileSettings)}

InitConfig ==
    /\ WrapperInit({DefaultMaxLines})
    /\ AnalyzerIdle
    /\ config_file \in ConfigFiles
    /\ environ \in Mappings(EnvIds, EnvChoices)
    /\ require_config_file \in BOOLEAN
    /\ config = DEFAULT_CONFIG
    /\ cpc = "file"

NextConfig == LoadConfig \/ LoadEnvVars \/ CheckRequired

SpecConfig == InitConfig /\ [][NextConfig]_vars

(***************************************************************************)
(* SpecAnalyzer explores one AIAnalyzer: its construction over a built     *)
(* Config and one call of analyze, with the console streams in the states  *)
(* the relay can leave them in.                                            *)
(***************************************************************************)
AnalyzerEnv ==
    {<<"TERN_DEBUG", "true">>, <<"TERN_LIMITS_OUTPUT_CHARS", "abc">>,
     <<"TERN_LIMITS_ERROR_CHARS", "1">>}

AnalyzeInputs ==
    {[command |-> "ls", output |-> o, errors |-> e, return_code |-> c] :
        o \in {"", "ab"}, e \in {"", "cd"}, c \in {0, 1}}

InitAnalyzer ==
    /\ WrapperInit({DefaultMaxLines})
    /\ config_file = [exists |-> FALSE, parses |-> FALSE, content |-> <<>>]
    /\ environ \in Mappings({}, AnalyzerEnv)
    /\ require_config_file = FALSE
    /\ config = FillTestIds(DeepMerge(DEFAULT_CONFIG, EnvSettings(environ)))
    /\ cpc = "ready"
    /\ bedrock_client = FALSE
    /\ apc = "new"
    /\ analyzeArgs = <<>>
    /\ prompt = <<>>
    /\ response = <<>>
    /\ invokeCalls = <<>>
    /\ analyzeResult = NotAnalyzed

NextAnalyzer ==
    \/ InitializeBedrock
    \/ \E s \in Streams : StreamFails(s)
    \/ AnalyzeCall(AnalyzeInputs)
    \/ PromptStep
    \/ InvokeModel
    \/ AnalyzeReturn
    \/ AnalyzeExcept

SpecAnalyzer == InitAnalyzer /\ [][NextAnalyzer]_vars

(***************************************************************************)
(* SpecRelay is the slice of one relayed run: one command, run once as a   *)
(* library call, with a capture of every capacity; the child writes up to  *)
(* MaxLines lines in any order and exits with 0; reads and echoes can      *)
(* fail.                                                                   *)
(***************************************************************************)
InitRelay == InitWith(Capacities)

NextRelay ==
    \/ RunBegin({<<"ls">>}, 1)
    \/ Control
    \/ Threads
    \/ \E s \in Streams : ChildWrite(s, MaxLines)
    \/ \E s \in Streams : ChildWriteClosed(s, MaxLines)
    \/ ChildExit({0})

SpecRelay == InitRelay /\ [][NextRelay]_vars

(***************************************************************************)
(* SpecFilter is the slice of the directive filter on look-alikes: every   *)
(* argument list of up to MaxArgs tokens that are directives or hold a     *)
(* directive inside a longer token; failure-free threads, a child that     *)
(* writes at most one line to stdout and exits with 0.                     *)
(***************************************************************************)
FilterTokens ==
    {"--no-ai", "--ai-verbose", "--ai-summary",
     "x--no-ai", "--ai-verbosely", "--ai-summary=1"}

ArgListsFilter == UNION {[1..n -> FilterTokens] : n \in 0..MaxArgs}

NextFilter ==
    \/ RunBegin(ArgListsFilter, 1)
    \/ Control
    \/ ThreadsNoFailure
    \/ ChildWrite("stdout", 1)
    \/ ChildExit({0})

SpecFilter == InitArgv /\ [][NextFilter]_vars

(***************************************************************************)
(* SpecConsole explores one run with its surroundings in finer steps: the  *)
(* child may wait for input, standard output may change between terminal   *)
(* and not while the run is in progress, and an echo is two writes.        *)
(***************************************************************************)
ThreadsInTwoWrites ==
    \E s \in Streams :
        \/ StartThread(s)
        \/ ReadLine(s)
        \/ ReadEof(s)
        \/ EchoText(s)
        \/ EchoEnd(s)
        \/ EchoFail(s)
        \/ ClosePipe(s)
        \/ JoinThread(s)

NextConsole ==
    \/ RunBegin(ArgLists, 1)
    \/ Control
    \/ ThreadsInTwoWrites
    \/ \E s \in Streams : ChildWrite(s, MaxLines)
    \/ \E s \in Streams : ChildWriteClosed(s, MaxLines)
    \/ ChildExit({0})
    \/ ChildAwaitInput
    \/ InputArrives
    \/ TtyChange

SpecConsole == InitRuns /\ [][NextConsole]_vars

(***************************************************************************)
(* Vocabulary of the properties, stated without the operators of the       *)
(* model of run.                                                           *)
(***************************************************************************)
\* the last n elements of seq
LastN(seq, n) == SubSeq(seq, Len(seq) - Min(n, Len(seq)) + 1, Len(seq))

\* the lines the child has put into the pipe of stream s, terminators removed
LinesWritten(s) ==
    queue_obj[s] \o [i \in 1..Len(pipe[s]) |-> RStripNL(pipe[s][i])]

\* tok (a word without spaces) is one of the pieces of str between spaces
HasPiece(str, tok) ==
    \E i \in 1..(Len(str) - Len(tok) + 1) :
        LET j == i + Len(tok) - 1
        IN  /\ i = 1 \/ SubSeq(str, i - 1, i - 1) = " "
            /\ j = Len(str) \/ SubSeq(str, j + 1, j + 1) = " "
            /\ SubSeq(str, i, j) = tok

Directives == {"--no-ai", "--ai-verbose", "--ai-summary"}

Has(args, tok) == \E i \in 1..Len(args) : args[i] = tok

Occurrences(args, tok) == Cardinality({i \in 1..Len(args) : args[i] = tok})

KeptIdx(args) == {i \in 1..Len(args) : args[i] \notin Directives}

\* the position in the literal command where token i starts
RECURSIVE StartOf(_, _)
StartOf(args, i) ==
    IF i = 1 THEN 1
    ELSE StartOf(args, i - 1)
         + (IF (i - 1) \in KeptIdx(args) THEN Len(args[i - 1]) + 1 ELSE 0)

LiteralLen(args) ==
    IF KeptIdx(args) = {} THEN 0 ELSE StartOf(args, Len(args) + 1) - 2

Spawned == child # "none"

RunOver == pc \in {"returned", "raised"}

SomeCapture == Len(storage_list.stdout) > 0 \/ Len(storage_list.stderr) > 0

(***************************************************************************)
(* C1.  Whenever the child was spawned, run returns exactly the value      *)
(* process.wait() produced, whatever the analysis decision, whatever echo  *)
(* or read failure happens in a reader and whatever failure the analysis   *)
(* call has.                                                               *)
(***************************************************************************)
C1_ReturnsChildCode ==
    (RunOver /\ Spawned) => ret = childCode

(***************************************************************************)
(* C2.  A failed echo does not end the reader's loop: a reader that ended  *)
(* without a read error has captured every line the child wrote to its     *)
(* stream, up to the eviction of the oldest.                               *)
(***************************************************************************)
C2_EchoFailureKeepsAllLines ==
    \A s \in Streams :
        (rpc[s] = "done" /\ exitPath[s] # "read")
            => storage_list[s] = LastN(LinesWritten(s), max_lines)

(***************************************************************************)
(* C3.  After a reader has finished, the capture of its stream holds       *)
(* exactly min(N, C) lines, N the number of lines read and C the capacity, *)
(* in arrival order, and they are the last ones read.                      *)
(***************************************************************************)
C3_CaptureIsLastLines ==
    \A s \in Streams :
        rpc[s] = "done"
            => /\ Len(storage_list[s]) = Min(Len(queue_obj[s]), max_lines)
               /\ storage_list[s] = LastN(queue_obj[s], max_lines)

C3_Witness ==
    \E s \in Streams :
        /\ rpc[s] = "done"
        /\ max_lines >= 1
        /\ Len(queue_obj[s]) > max_lines
        /\ Len(storage_list[s]) = max_lines

(***************************************************************************)
(* C4.  If standard output is not a terminal, the analyzer is never        *)
(* invoked in that run.                                                    *)
(***************************************************************************)
C4_NoAnalysisWhenPiped ==
    ~isatty => analyzeCalls = <<>>

C4_Witness ==
    /\ ~isatty
    /\ pc = "returned"
    /\ Spawned
    /\ ~Has(argv, "--no-ai")
    /\ SomeCapture

(***************************************************************************)
(* C5.  If '--no-ai' occurs in the argument list, the analyzer is never    *)
(* invoked and no piece of the command handed to the shell is '--no-ai'.   *)
(***************************************************************************)
C5_NoAiSkipsAndIsStripped ==
    Has(argv, "--no-ai")
        => /\ analyzeCalls = <<>>
           /\ \A i \in 1..Len(popenCalls) :
                 ~HasPiece(popenCalls[i], "--no-ai")

C5_Witness ==
    /\ Occurrences(argv, "--no-ai") >= 2
    /\ Has(argv, "ls")
    /\ isatty
    /\ pc = "returned"
    /\ Spawned
    /\ SomeCapture

(***************************************************************************)
(* C6.  No piece of the command handed to the shell is '--ai-verbose' or   *)
(* '--ai-summary', and a run whose arguments hold such a token but no      *)
(* '--no-ai' still invokes the analyzer when standard output is a terminal *)
(* and a capture holds a line.                                             *)
(***************************************************************************)
C6_DeprecatedStrippedOnly ==
    /\ \A i \in 1..Len(popenCalls) :
          /\ ~HasPiece(popenCalls[i], "--ai-verbose")
          /\ ~HasPiece(popenCalls[i], "--ai-summary")
    /\ ( /\ Has(argv, "--ai-verbose") \/ Has(argv, "--ai-summary")
         /\ ~Has(argv, "--no-ai")
         /\ isatty
         /\ RunOver
         /\ Spawned
         /\ SomeCapture )
          => Len(analyzeCalls) = 1

C6_Witness ==
    /\ Has(argv, "--ai-verbose")
    /\ Has(argv, "--ai-summary")
    /\ Has(argv, "ls")
    /\ isatty
    /\ pc = "returned"
    /\ Len(analyzeCalls) = 1

(***************************************************************************)
(* C7.  The command handed to the shell is the tokens that are not         *)
(* directives, in their order, each one unchanged, with exactly one space  *)
(* between two neighbours and nothing else.                                *)
(***************************************************************************)
C7_LiteralIsTokensJoined ==
    \A c \in 1..Len(popenCalls) :
        /\ Len(popenCalls[c]) = LiteralLen(argv)
        /\ \A i \in KeptIdx(argv) :
              LET from == StartOf(argv, i)
                  to == from + Len(argv[i]) - 1
              IN  /\ to <= Len(popenCalls[c])
                  /\ SubSeq(popenCalls[c], from, to) = argv[i]
                  /\ to < Len(popenCalls[c])
                        => SubSeq(popenCalls[c], to + 1, to + 1) = " "

C7_Witness ==
    /\ Len(popenCalls) = 1
    /\ Len(argv) = MaxArgs
    /\ argv[1] = "a;b"
    /\ argv[2] \in {"", " "}
    /\ argv[MaxArgs] \in {"", " "}

(***************************************************************************)
(* C8.  run([]) writes the usage text to standard output and returns 1;    *)
(* it spawns nothing, starts no reader, does not ask whether standard      *)
(* output is a terminal and does not invoke the analyzer.                  *)
(***************************************************************************)
C8_EmptyArgsIsUsageError ==
    (runs >= 1 /\ argv = <<>>)
        => /\ pc = "returned"
           /\ ret = <<1>>
           /\ Len(console.stdout) = 9
           /\ console.stdout[1].text = "Usage: tern <command> [args...]\n"
           /\ \A i \in 1..Len(console.stdout) : console.stdout[i].src = "usage"
           /\ console.stderr = <<>>
           /\ popenCalls = <<>>
           /\ ~Spawned
           /\ \A s \in Streams : rpc[s] = "none"
           /\ isattyCalls = 0
           /\ analyzeCalls = <<>>

C8_Witness ==
    /\ runs >= 1
    /\ argv = <<>>
    /\ pc = "returned"

(***************************************************************************)
(* C9.  If the spawn call raises, run reports it on the error stream and   *)
(* returns 1; no reader is started, no capture receives a line and the     *)
(* analyzer is not invoked.                                                *)
(***************************************************************************)
SpawnFailed == popenCalls # <<>> /\ ~Spawned

C9_SpawnFailureIsContained ==
    SpawnFailed
        => /\ pc = "returned"
           /\ ret = <<1>>
           /\ console.stderr # <<>>
           /\ Last(console.stderr).src = "error"
           /\ \A s \in Streams :
                 /\ rpc[s] = "none"
                 /\ storage_list[s] = <<>>
                 /\ queue_obj[s] = <<>>
           /\ analyzeCalls = <<>>

C9_Witness ==
    /\ SpawnFailed
    /\ isatty
    /\ ~Has(argv, "--no-ai")

(***************************************************************************)
(* C10.  With analysis enabled (terminal, no '--no-ai'), once both readers *)
(* are joined: the analyzer is not invoked if both captures are empty, and *)
(* is invoked exactly once if a capture holds a line.                      *)
(***************************************************************************)
C10_AnalyzerCalledIffCaptured ==
    /\ Len(analyzeCalls) <= 1
    /\ ( /\ isatty
         /\ ~Has(argv, "--no-ai")
         /\ Spawned
         /\ pc \in {"return", "returned", "raised"} )
          => Len(analyzeCalls) = (IF SomeCapture THEN 1 ELSE 0)

C10_Witness ==
    /\ isatty
    /\ ~Has(argv, "--no-ai")
    /\ pc = "returned"
    /\ storage_list.stdout = <<>>
    /\ Len(storage_list.stderr) > 0
    /\ Len(analyzeCalls) = 1

C10_WitnessEmpty ==
    /\ isatty
    /\ ~Has(argv, "--no-ai")
    /\ pc = "returned"
    /\ Spawned
    /\ ~SomeCapture
    /\ analyzeCalls = <<>>

\* a banner line stands on the stdout console
BannerShown ==
    \E i \in 1..Len(console.stdout) : console.stdout[i].src = "banner"

\* the analyzer returned a text that is not empty
Commentary ==
    /\ analyzed.state = "returned"
    /\ analyzed.value \notin {<<>>, <<"">>}

\* the analyzer raised, or its commentary could not be written to stdout
AnalysisFailed ==
    /\ pc \in {"return", "returned", "raised"}
    /\ \/ analyzed.state = "raised"
       \/ Commentary /\ ~BannerShown

(***************************************************************************)
(* C11.  A failure of the analyzer call or of the rendering of its result  *)
(* stays inside _analyze_and_display: no exception leaves run, the failure *)
(* is the last report on the error stream, and the value run returns is    *)
(* the child's exit code.                                                  *)
(***************************************************************************)
C11_AnalysisFailureIsContained ==
    AnalysisFailed =>
        /\ pc # "raised"
        /\ console.stderr # <<>>
        /\ Last(console.stderr).src = "error"
        /\ pc = "returned" => ret = childCode

\* run is past both joins of a run that spawned a child
PastJoin == Spawned /\ pc \in {"gate", "return", "returned", "raised"}

(***************************************************************************)
(* C12.  run gets past the joins only when the child has exited and both   *)
(* read_output threads have ended with their pipe closed; from then on,    *)
(* through the analyzer call and the return, no step of this run changes   *)
(* a capture or a queue.                                                   *)
(***************************************************************************)
C12_JoinedBeforeAnalysis ==
    /\ [](PastJoin =>
            /\ child = "exited"
            /\ return_code = childCode
            /\ \A s \in Streams : rpc[s] = "done" /\ ~pipeOpen[s])
    /\ [][(PastJoin /\ runs' = runs)
            => UNCHANGED <<storage_list, queue_obj>>]_vars

C12_Witness ==
    /\ pc = "returned"
    /\ Len(analyzeCalls) = 1
    /\ Len(storage_list.stdout) > 0
    /\ Len(storage_list.stderr) > 0

\* the pipe of stream s holds as many lines as it can: a writer would block
PipeFull(s) == pipeOpen[s] /\ Len(pipe[s]) = PipeCap

(***************************************************************************)
(* C13.  With the threads scheduled fairly and console writes that         *)
(* succeed, whatever the child writes and in whatever order: a full pipe   *)
(* is always drained or closed later, so a writer blocked on it can go on; *)
(* and once the child has exited, run returns.                             *)
(***************************************************************************)
C13_NoStallAndReturn ==
    /\ \A s \in Streams : PipeFull(s) ~> ~PipeFull(s)
    /\ (child = "exited") ~> (pc = "returned")

C13_Witness ==
    /\ child = "running"
    /\ \A s \in Streams : PipeFull(s) /\ rpc[s] = "read"
    /\ written.stdout + written.stderr < MaxLines

(***************************************************************************)
(* C14.  A read_output thread closes its pipe once, whichever way its loop *)
(* ended: the read end of a pipe is open exactly while its thread has not  *)
(* finished, after a run that spawned a child both pipes are closed, and   *)
(* over all runs of the CommandWrapper the number of close calls on each   *)
(* stream equals the number of children whose thread has finished.         *)
(***************************************************************************)
C14_PipeClosedOncePerRun ==
    \A s \in Streams :
        LET unfinished == IF Spawned /\ rpc[s] # "done" THEN 1 ELSE 0
        IN  /\ closeCount[s] = spawnCount - unfinished
            /\ pipeOpen[s] <=> unfinished = 1
            /\ (RunOver /\ Spawned) =>
                  /\ ~pipeOpen[s]
                  /\ exitPath[s] \in {"eof", "echo", "read"}

C14_Witness ==
    /\ runs = MaxRuns
    /\ pc = "returned"
    /\ spawnCount = MaxRuns
    /\ exitPath.stdout = "echo"
    /\ exitPath.stderr = "read"
    /\ \A s \in Streams : closeCount[s] = MaxRuns

NotDirective(a) == a \notin Directives

\* the tokens of an argument list that are not directives, in order
Operands(args) == SelectSeq(args, NotDirective)

IsRelayed(e) == e.src = "relay"

\* the lines read_output echoed on each console stream
Echoed(con) == [s \in Streams |-> SelectSeq(con[s], IsRelayed)]

\* the run that is over and the run before it had the same operands, a
\* child that did the same, and the same failures of reads and echoes
SameRunTwice ==
    /\ RunOver
    /\ prev # <<>>
    /\ Operands(prev[1].argv) = Operands(argv)
    /\ Operands(argv) # <<>>
    /\ prev[1].childCode = childCode
    /\ prev[1].queue_obj = queue_obj
    /\ prev[1].pipe = pipe
    /\ prev[1].exitPath = exitPath
    /\ prev[1].consoleBroken = consoleBroken

(***************************************************************************)
(* C17.  Two runs with the same operands, the same child behaviour and the *)
(* same read and echo failures show the same literal command, the same     *)
(* echoed lines on each console stream, the same captures and the same     *)
(* returned exit code, whatever the analysis decision of each run was      *)
(* (enabled, opted out with '--no-ai', or disabled by a stdout that is not *)
(* a terminal).                                                            *)
(***************************************************************************)
C17_DecisionOnlyGatesAnalyzer ==
    SameRunTwice =>
        /\ prev[1].popenCalls = popenCalls
        /\ Echoed(prev[1].console) = Echoed(console)
        /\ prev[1].storage_list = storage_list
        /\ prev[1].pc = pc
        /\ prev[1].ret = ret

(***************************************************************************)
(* C15.  Every run ends by returning a value: the exit code of the child   *)
(* it spawned, or 1 if the argument list was empty or the spawn failed.    *)
(* So 0 is returned only for a child that exited with 0, and no failure of *)
(* an echo, a read or the analysis puts anything else in its place.        *)
(***************************************************************************)
C15_ReturnsChildCodeOrOne ==
    RunOver =>
        /\ pc = "returned"
        /\ ret = (IF Spawned THEN childCode ELSE <<1>>)
        /\ ~Spawned => (argv = <<>> \/ SpawnFailed)
        /\ ret = <<0>> => (Spawned /\ childCode = <<0>>)

\* this run found stdout not to be a terminal and did not stop at the usage
\* text
PipedRun == runs > 0 /\ ~isatty /\ argv # <<>>

SuggestionLead == "   To analyze the full pipeline, use: tern '"

\* the pipe warning stands first on the stderr console, its third line
\* quoting the text shown
WarningQuotes(shown) ==
    /\ Len(console.stderr) >= 4
    /\ \A i \in 1..4 : console.stderr[i].src = "warning"
    /\ console.stderr[3].text = SuggestionLead \o shown \o " | ...'\n"
    /\ popenCalls # <<>> => popenCalls = <<command_str>>

(***************************************************************************)
(* C16 as claimed.  When stdout is not a terminal the warning is on the    *)
(* error stream before the child is spawned and from then on, and its      *)
(* suggestion quotes the whole literal command, the string given to the    *)
(* shell, whatever its length.                                             *)
(***************************************************************************)
C16_WarningNamesWholeCommand == PipedRun => WarningQuotes(command_str)

(***************************************************************************)
(* C16 amended.  When stdout is not a terminal the warning is on the error *)
(* stream before the child is spawned and from then on; its suggestion     *)
(* quotes the whole literal command if "tern '<command> | ...'" has at     *)
(* most 60 characters, and otherwise the first 40 characters of the        *)
(* command followed by "...".                                              *)
(***************************************************************************)
C16_WarningNamesCommandOrPrefix ==
    PipedRun =>
        IF Len(command_str) + Len("tern '") + Len(" | ...'") <= WarningWidth
        THEN WarningQuotes(command_str)
        ELSE WarningQuotes(SubSeq(command_str, 1, WarningKeep) \o "...")

C16_Witness ==
    /\ PipedRun
    /\ pc = "spawn"
    /\ Len(command_str) + Len("tern '") + Len(" | ...'") > WarningWidth
    /\ popenCalls = <<>>
    /\ Len(console.stderr) = 4

\* the process was started through main and has terminated
Exited == sys_argv # <<>> /\ exitStatus # <<>>

\* run was called with sys.argv without the program name
ArgsPassedOn ==
    (sys_argv # <<>> /\ runs > 0) =>
        /\ runs = 1
        /\ Len(argv) = Len(sys_argv) - 1
        /\ \A i \in 1..Len(argv) : argv[i] = sys_argv[i + 1]

RECURSIVE LineStart(_, _)
LineStart(lines, i) ==
    IF i = 1 THEN 1 ELSE LineStart(lines, i - 1) + Len(lines[i - 1]) + 1

\* text is the lines in order with one "\n" between neighbours and nothing
\* else
IsLinesJoined(text, lines) ==
    /\ Len(text) =
          (IF Len(lines) = 0 THEN 0 ELSE LineStart(lines, Len(lines) + 1) - 2)
    /\ \A i \in 1..Len(lines) :
          LET from == LineStart(lines, i)
              to == from + Len(lines[i]) - 1
          IN  /\ to <= Len(text)
              /\ SubSeq(text, from, to) = lines[i]
              /\ i < Len(lines) => SubSeq(text, to + 1, to + 1) = "\n"

(***************************************************************************)
(* C19.  Every call of the analyzer carries the literal command that was   *)
(* given to the shell, the lines of the stdout capture joined by "\n", the *)
(* lines of the stderr capture joined by "\n", and the child's exit code,  *)
(* which is also the value run returns; the captures are those the run     *)
(* ends with.                                                              *)
(***************************************************************************)
C19_AnalyzerArguments ==
    \A c \in 1..Len(analyzeCalls) :
        /\ popenCalls = <<analyzeCalls[c].command>>
        /\ IsLinesJoined(analyzeCalls[c].output, storage_list.stdout)
        /\ IsLinesJoined(analyzeCalls[c].errors, storage_list.stderr)
        /\ childCode = <<analyzeCalls[c].return_code>>
        /\ pc = "returned" => ret = <<analyzeCalls[c].return_code>>

C19_Witness ==
    /\ pc = "returned"
    /\ Len(analyzeCalls) = 1
    /\ Len(storage_list.stdout) = 2
    /\ Len(queue_obj.stdout) = 3
    /\ storage_list.stdout[1] # ""
    /\ analyzeCalls[1].output =
          storage_list.stdout[1] \o "\n" \o storage_list.stdout[2]

\* the banner is the last five lines on the stdout console and carries the
\* text shown
BannerCarries(shown) ==
    /\ Len(console.stdout) >= 5
    /\ LET at(k) == console.stdout[Len(console.stdout) - 5 + k]
       IN  /\ \A k \in 1..5 : at(k).src = "banner"
           /\ at(2).text = "TERN AI Analysis:\n"
           /\ at(4).text = shown \o "\n"
    /\ Cardinality({i \in 1..Len(console.stdout) :
                       console.stdout[i].src = "banner"}) = 5

\* run(['echo', 'hello']) on a terminal, a child that wrote one line to
\* stdout and exited with 0, no failed read or echo, the analyzer answering
\* 'OK'
EchoHelloRun ==
    /\ pc = "returned"
    /\ argv = <<"echo", "hello">>
    /\ isatty
    /\ childCode = <<0>>
    /\ Len(queue_obj.stdout) = 1
    /\ queue_obj.stderr = <<>>
    /\ \A s \in Streams : exitPath[s] = "eof"
    /\ analyzed = [state |-> "returned", value |-> <<"OK">>]

EchoHelloOutcome ==
    /\ popenCalls = <<"echo hello">>
    /\ storage_list.stdout = queue_obj.stdout
    /\ storage_list.stderr = <<>>
    /\ ret = <<0>>
    /\ BannerCarries("OK")

(***************************************************************************)
(* C20 as claimed.  A banner is on stdout if and only if the analyzer was  *)
(* called and returned a commentary that is not empty; and the run of      *)
(* ['echo', 'hello'] ends as described.                                    *)
(***************************************************************************)
C20_BannerIffCommentary ==
    /\ BannerShown <=> Commentary
    /\ EchoHelloRun => EchoHelloOutcome

(***************************************************************************)
(* C20 amended.  A banner is on stdout only if the analyzer was called and *)
(* returned a commentary that is not empty, and then it carries that       *)
(* commentary; such a commentary is rendered whenever no write to stdout   *)
(* has failed in this run; None, an empty text or an analyzer exception    *)
(* give no banner; and the run of ['echo', 'hello'] ends as described.     *)
(***************************************************************************)
C20_BannerOnlyForCommentary ==
    /\ BannerShown => (Commentary /\ BannerCarries(analyzed.value[1]))
    /\ (Commentary /\ ~consoleBroken.stdout) => BannerShown
    /\ EchoHelloRun => EchoHelloOutcome

C20_Witness ==
    /\ EchoHelloRun
    /\ storage_list.stdout = <<"out1">>
    /\ BannerCarries("OK")

(***************************************************************************)
(* Vocabulary for the configuration.                                       *)
(***************************************************************************)
MappedKeys == {ENV_VAR_MAP[v] : v \in DOMAIN ENV_VAR_MAP}

Identifiers == {"bedrock.model_id", "bedrock.region"}

EnvVarFor(k) == CHOOSE v \in DOMAIN ENV_VAR_MAP : ENV_VAR_MAP[v] = k

SetInEnv(k) == EnvVarFor(k) \in DOMAIN environ

SetInFile(k) ==
    /\ config_file.exists
    /\ config_file.parses
    /\ k \in DOMAIN config_file.content

Built == cpc = "ready"

\* the value a text of the environment stands for: a boolean for true and
\* false in any case, a number for a decimal numeral, else the text itself
Numeral(text) ==
    /\ text # ""
    /\ \A i \in 1..Len(text) :
          SubSeq(text, i, i) \in
              {"0", "1", "2", "3", "4", "5", "6", "7", "8", "9"}

Fraction(text) ==
    \E i \in 1..Len(text) :
        /\ SubSeq(text, i, i) = "."
        /\ Numeral(SubSeq(text, 1, i - 1))
        /\ Numeral(SubSeq(text, i + 1, Len(text)))

StandsFor(text, v) ==
    IF text \in {"true", "True", "TRUE", "false", "False", "FALSE"}
    THEN v = BoolV(text \in {"true", "True", "TRUE"})
    ELSE IF Numeral(text)
    THEN /\ v = IntV(v.n)
         /\ \E z \in 0..(Len(text) - 1) :
               text = SubSeq("000000", 1, z) \o ToString(v.n)
    ELSE IF Fraction(text) THEN v = FloatV(text)
    ELSE v = StrV(text)

BuiltIn(k) ==
    CASE k = "limits.max_lines" -> IntV(10000)
      [] k = "limits.output_chars" -> IntV(15000)
      [] k = "limits.error_chars" -> IntV(5000)
      [] k = "bedrock.timeout" -> IntV(180)
      [] k = "debug" -> BoolV(FALSE)

\* a timeout of the file as the loader keeps it: a whole number of seconds
\* between 0 and 3600, and 180 for a text that is no number
Kept(timeout) ==
    CASE timeout.kind = "int" ->
            IntV(IF Abs(timeout.n) > 3600 THEN 3600 ELSE Abs(timeout.n))
      [] timeout.kind = "str" -> IntV(180)
      [] OTHER -> timeout

C21_AnalyzeNeverRaises ==
    apc = "done" =>
        /\ analyzeResult.state = "returned"
        /\ ~bedrock_client =>
              analyzeResult.value = <<>> /\ invokeCalls = <<>>
        /\ PromptFails(analyzeArgs[1]) => analyzeResult.value = <<>>

\* the lines read_output echoed on a console stream, in order
RelayedOn(s) == SelectSeq(console[s], IsRelayed)

\* echoed are the first lines of appended, each with its terminator
IsEchoOf(echoed, appended) ==
    /\ Len(echoed) <= Len(appended)
    /\ \A i \in 1..Len(echoed) : echoed[i].text = appended[i] \o "\n"

\* C23, as stated: each line is appended to the capture before its echo is
\* attempted: the lines echoed for a stream are at most as many as the
\* lines appended, and a line whose echo failed is in the capture and
\* stays there.
C23_AppendedBeforeEchoed ==
    \A s \in Streams :
        LET echoed == RelayedOn(s)
        IN  /\ IsEchoOf(echoed, queue_obj[s])
            /\ exitPath[s] = "echo" =>
                  /\ storage_list[s] # <<>>
                  /\ Last(storage_list[s]) = Last(queue_obj[s])
                  /\ Len(echoed) = Len(queue_obj[s]) - 1

\* C23, amended: the same, for a capture of capacity 1 or more; a capture
\* of capacity 0 records nothing, before or after the failure.
C23_AppendedBeforeEchoedIfRoom ==
    \A s \in Streams :
        LET echoed == RelayedOn(s)
        IN  /\ IsEchoOf(echoed, queue_obj[s])
            /\ exitPath[s] = "echo" =>
                  /\ Len(echoed) = Len(queue_obj[s]) - 1
                  /\ IF max_lines >= 1
                     THEN /\ storage_list[s] # <<>>
                          /\ Last(storage_list[s]) = Last(queue_obj[s])
                     ELSE storage_list[s] = <<>>

\* the echo of a second line failed after the echo of a first succeeded
C23_Witness ==
    \E s \in Streams :
        /\ exitPath[s] = "echo"
        /\ max_lines >= 1
        /\ Len(queue_obj[s]) = 2
        /\ Len(RelayedOn(s)) = 1
        /\ rpc[s] = "done"

\* line is what the child wrote as the i-th line of stream s, terminator
\* removed: a blank line, or a line that names its stream and its position
IsLineOf(line, s, i) == line \in {"", StreamTag(s) \o ToString(i)}

\* C24: in every interleaving of the two readers the capture of a stream
\* is determined by the lines read from the pipe of that stream: they are
\* captured in arrival order, the capture holds the last of them, and a
\* line read from one pipe is neither captured nor echoed for the other
\* stream.
C24_StreamsAreIndependent ==
    \A s \in Streams :
        /\ \A i \in 1..Len(queue_obj[s]) : IsLineOf(queue_obj[s][i], s, i)
        /\ storage_list[s] = LastN(queue_obj[s], max_lines)
        /\ IsEchoOf(RelayedOn(s), queue_obj[s])

\* both readers have ended after reading lines of their own, in turns
C24_Witness ==
    /\ rpc.stdout = "done" /\ rpc.stderr = "done"
    /\ storage_list.stdout = <<"out1", "out2">>
    /\ storage_list.stderr = <<"err1">>
    /\ Len(RelayedOn("stdout")) = 2
    /\ Len(RelayedOn("stderr")) = 1

IsWarning(e) == e.src = "warning"

\* the lines of the piped-output warning a run has written
Warnings(con) == SelectSeq(con.stderr, IsWarning)

\* this run and the run before it had the same operands and a standard
\* output that is no terminal, and only this run was given '--no-ai'
OptedOutAfterPlain ==
    /\ prev # <<>>
    /\ ~isatty /\ ~prev[1].isatty
    /\ Has(argv, "--no-ai") /\ ~Has(prev[1].argv, "--no-ai")
    /\ Operands(prev[1].argv) = Operands(argv)

\* C26: with '--no-ai' and a standard output that is no terminal, the
\* analysis is disabled and the piped-output warning is written to the
\* error stream, before anything else and exactly as in a run without
\* '--no-ai'.
C26_PipedWinsOverNoAi ==
    /\ (runs > 0 /\ ~isatty /\ Has(argv, "--no-ai")) =>
          /\ ~should_analyze
          /\ analyzeCalls = <<>>
          /\ Len(Warnings(console)) = 4
          /\ SubSeq(console.stderr, 1, 4) = Warnings(console)
    /\ OptedOutAfterPlain =>
          /\ Warnings(console) = Warnings(prev[1].console)
          /\ should_analyze = prev[1].should_analyze

C26_Witness ==
    /\ OptedOutAfterPlain
    /\ RunOver
    /\ Len(Warnings(console)) = 4
    /\ Len(console.stderr) > 4

C29_DecisionTakenOnce ==
    /\ [](runs > 0 => isattyCalls = (IF argv = <<>> THEN 0 ELSE 1))
    /\ []((runs > 0 /\ argv # <<>>) =>
            (should_analyze <=>
                (Warnings(console) = <<>> /\ ~Has(argv, "--no-ai"))))
    /\ []((Spawned /\ pc \in {"return", "returned", "raised"}) =>
            Len(analyzeCalls) = (IF should_analyze /\ SomeCapture THEN 1
                                 ELSE 0))
    /\ [][runs' = runs =>
            UNCHANGED <<should_analyze, isattyCalls>>]_vars

\* the analyzer was called although standard output has stopped being a
\* terminal while the child ran
C29_Witness ==
    /\ pc = "returned"
    /\ ~isatty
    /\ Len(analyzeCalls) = 1
    /\ Warnings(console) = <<>>

IsLineText(e) == e.src = "relay" /\ e.text # "\n"

\* C30: on each console stream every echoed line is whole: its text is
\* followed at once by its terminator, written by the same reader, and no
\* write of the other reader comes between the two; the one exception is
\* the last write of a reader that is about to write the terminator.
C30_LinesAreWhole ==
    \A c \in Streams :
        /\ \A i \in 1..Len(console[c]) :
              LET e == console[c][i]
              IN  e.src = "relay" =>
                    IF e.text = "\n"
                    THEN /\ i > 1
                         /\ IsLineText(console[c][i - 1])
                         /\ console[c][i - 1].by = e.by
                    ELSE IF i = Len(console[c])
                    THEN rpc[e.by] = "echo_end"
                    ELSE /\ console[c][i + 1].src = "relay"
                         /\ console[c][i + 1].text = "\n"
                         /\ console[c][i + 1].by = e.by
        /\ LET texts == SelectSeq(console[c], IsLineText)
           IN  /\ Len(texts) <= Len(queue_obj[c])
               /\ \A k \in 1..Len(texts) : texts[k].text = queue_obj[c][k]

\* both readers are between the text of a line and its terminator, after
\* a first line on standard output
C30_Witness ==
    /\ rpc.stdout = "echo_end"
    /\ rpc.stderr = "echo_end"
    /\ Len(console.stdout) = 3

\* C28: every run on a CommandWrapper starts with empty captures and takes
\* its analysis decision anew: the captures and the analyzer's input hold
\* only lines the child of this run wrote, and the decision depends only
\* on the arguments and the standard output of this run, not on a
\* '--no-ai' or a non-terminal of the run before.
C28_RunsShareNothing ==
    /\ pc = "spawn" => storage_list = [s \in Streams |-> <<>>]
    /\ \A s \in Streams :
          /\ Len(storage_list[s]) <= written[s]
          /\ \A i \in 1..Len(storage_list[s]) :
                \E j \in 1..written[s] : IsLineOf(storage_list[s][i], s, j)
    /\ \A k \in 1..Len(analyzeCalls) :
          /\ IsLinesJoined(analyzeCalls[k].output, storage_list.stdout)
          /\ IsLinesJoined(analyzeCalls[k].errors, storage_list.stderr)
          /\ analyzeCalls[k].command = command_str
    /\ (runs > 0 /\ argv # <<>>) =>
          (should_analyze <=> (isatty /\ ~Has(argv, "--no-ai")))

\* a second run that analyses a line of its own child, after a first run
\* that was opted out and had captured a line on the other stream
C28_Witness ==
    /\ prev # <<>>
    /\ ~prev[1].should_analyze
    /\ prev[1].storage_list.stdout = <<"out1">>
    /\ pc = "returned"
    /\ should_analyze
    /\ storage_list = [stdout |-> <<>>, stderr |-> <<"err1">>]
    /\ Len(analyzeCalls) = 1
    /\ analyzeCalls[1].output = ""

Failed(s) == exitPath[s] \in {"echo", "read"}

\* C32: a failure in one reader (a failed echo or a read that raised)
\* changes nothing for the other: as long as the other has no failure of
\* its own it captures and echoes every line it reads from its stream, and
\* it ends only at the end of its stream, with every line the child wrote
\* to that stream read, and with its own pipe closed.
C32_OtherRelayUnaffected ==
    \A s, o \in Streams :
        (o # s /\ Failed(o) /\ ~Failed(s)) =>
            LET echoed == RelayedOn(s)
                pending == IF rpc[s] = "echo" THEN 1 ELSE 0
            IN  /\ \A i \in 1..Len(queue_obj[s]) :
                      IsLineOf(queue_obj[s][i], s, i)
                /\ storage_list[s] = LastN(queue_obj[s], max_lines)
                /\ IsEchoOf(echoed, queue_obj[s])
                /\ Len(echoed) = Len(queue_obj[s]) - pending
                /\ pipeOpen[s] <=> rpc[s] \in {"none", "read", "echo", "close"}
                /\ rpc[s] \in {"close", "done"} =>
                      /\ exitPath[s] = "eof"
                      /\ Len(queue_obj[s]) = written[s]
                      /\ pipe[s] = <<>>

\* the first echo on stdout failed, and the reader of stderr has read,
\* captured and echoed two lines up to the end of its stream
C32_Witness ==
    /\ exitPath.stdout = "echo"
    /\ Len(queue_obj.stdout) = 1
    /\ rpc.stderr = "done"
    /\ exitPath.stderr = "eof"
    /\ Len(queue_obj.stderr) = 2
    /\ Len(RelayedOn("stderr")) = 2
    /\ ~pipeOpen.stderr

\* C33: a reader that stopped before the end of its stream (failed echo or
\* read that raised) has closed its pipe, so the child is not held on that
\* pipe filling up, and the run does not end without returning.
C33_StoppedRelayLeavesNoStall ==
    \A s \in Streams :
        (Failed(s) /\ rpc[s] = "done") =>
            /\ ~pipeOpen[s]
            /\ ~PipeFull(s)
            /\ pc # "raised"

\* the phase of a run in which a console entry is written: the warning
\* before the spawn, the echoes while the readers run, the rest afterwards
Phase(e) ==
    CASE e.src = "warning" -> 1
      [] e.src = "relay" -> 2
      [] OTHER -> 3

IsAfterRelay(e) == e.src \in {"banner", "error"}

\* C34: the console output of a run comes in phases.  The piped-output
\* warning is complete before the child is spawned and so stands before
\* every echoed line; the analyzer is called, and the banner written, only
\* when the child and both readers have ended; so on each stream no echoed line
\* follows the banner or an error report, and nothing is echoed once the
\* analyzer has been called.
C34_ConsoleIsPhased ==
    /\ (runs > 0 /\ argv # <<>>) =>
          /\ Len(Warnings(console)) = (IF isatty THEN 0 ELSE 4)
          /\ Warnings(console) = SubSeq(console.stderr, 1, Len(Warnings(console)))
    /\ ~Spawned => \A s \in Streams : RelayedOn(s) = <<>>
    /\ \A s \in Streams :
          \A i, j \in 1..Len(console[s]) :
              i < j => Phase(console[s][i]) <= Phase(console[s][j])
    /\ (analyzeCalls # <<>> \/ \E s \in Streams :
                                  SelectSeq(console[s], IsAfterRelay) # <<>>)
          => \/ ~Spawned
             \/ /\ child = "exited"
                /\ \A s \in Streams : rpc[s] = "done" /\ ~pipeOpen[s]

\* a run on a terminal wrote the banner after the lines it echoed, and the
\* run before it, not on a terminal, echoed a line after its warning
C34_Witness ==
    /\ prev # <<>>
    /\ Len(Warnings(prev[1].console)) = 4
    /\ Len(prev[1].console.stderr) = 5
    /\ prev[1].console.stderr[5].src = "relay"
    /\ pc = "returned"
    /\ Len(analyzeCalls) = 1
    /\ Len(console.stdout) > 1
    /\ console.stdout[1].src = "relay"
    /\ Last(console.stdout).src = "banner"

\* C35: the check for an empty argument list is made before the directives
\* are removed: for a list that holds directives and nothing else run
\* writes no usage text, asks for the terminal, spawns the shell with the
\* empty command and, once the child was spawned, returns the child's code.
C35_DirectivesOnlyIsNoUsageError ==
    (runs > 0 /\ argv # <<>> /\ Operands(argv) = <<>>) =>
        /\ command_str = ""
        /\ \A s \in Streams :
              \A i \in 1..Len(console[s]) : console[s][i].src # "usage"
        /\ isattyCalls = 1
        /\ pc # "spawn" => popenCalls = <<"">>
        /\ (RunOver /\ Spawned) => (pc = "returned" /\ ret = childCode)

\* run(['--no-ai', '--ai-verbose']) has returned the code of the shell it
\* spawned with an empty command
C35_Witness ==
    /\ argv = <<"--no-ai", "--ai-verbose">>
    /\ pc = "returned"
    /\ Spawned
    /\ popenCalls = <<"">>
    /\ ret = <<0>>
    /\ console.stdout = <<>>

\* C36: a directive is recognised by equality with a whole token, and all
\* its occurrences are removed: the analysis is disabled by a token that
\* is '--no-ai' and by no other, every token that is no directive is a
\* piece of the command in its place, no piece of the command is a
\* directive, and filtering a filtered list changes nothing.
C36_DirectivesAreWholeTokens ==
    (runs > 0 /\ argv # <<>>) =>
        /\ should_analyze <=> (isatty /\ ~Has(argv, "--no-ai"))
        /\ command_str = Join(Operands(argv), " ")
        /\ \A i \in 1..Len(argv) :
              argv[i] \notin Directives => HasPiece(command_str, argv[i])
        /\ \A d \in Directives : ~HasPiece(command_str, d)
        /\ CleanArgs(CleanArgs(argv)) = CleanArgs(argv)
        /\ (isatty /\ ~Has(argv, "--no-ai") /\ RunOver /\ Spawned
              /\ SomeCapture) => Len(analyzeCalls) = 1

\* three tokens that hold a directive inside them were forwarded as they
\* are, and the analyzer was called
C36_Witness ==
    /\ argv = <<"x--no-ai", "--ai-verbosely", "--ai-summary=1">>
    /\ popenCalls = <<"x--no-ai --ai-verbosely --ai-summary=1">>
    /\ isatty
    /\ pc = "returned"
    /\ Len(analyzeCalls) = 1

\* every entry of the capture is the empty text
AllBlank(lines) == lines # <<>> /\ \A i \in 1..Len(lines) : lines[i] = ""

\* n line feeds
RECURSIVE LineFeeds(_)
LineFeeds(n) == IF n <= 0 THEN "" ELSE "\n" \o LineFeeds(n - 1)

\* a blank line is an entry like any other: a reader that ended at the end
\* of its stream has an entry for every line the child wrote, the capture
\* is the last entries whatever they are, each entry is echoed with a
\* terminator, and a capture of blank entries opens the analysis gate
BlankLinesAreLines ==
    /\ \A s \in Streams :
          /\ (rpc[s] = "done" /\ exitPath[s] = "eof") =>
                Len(queue_obj[s]) = written[s]
          /\ storage_list[s] = LastN(queue_obj[s], max_lines)
          /\ IsEchoOf(RelayedOn(s), queue_obj[s])
    /\ (pc \in {"return", "returned", "raised"} /\ Spawned /\ should_analyze
          /\ SomeCapture) => Len(analyzeCalls) = 1

\* C37, as stated: a blank line is captured as an empty entry that takes a
\* slot of the capture and is echoed; a capture of such entries counts as
\* non-empty, and the analyzer is called with the empty output text.
C37_BlankCaptureGivesEmptyText ==
    /\ BlankLinesAreLines
    /\ \A c \in 1..Len(analyzeCalls) :
          /\ AllBlank(storage_list.stdout) => analyzeCalls[c].output = ""
          /\ AllBlank(storage_list.stderr) => analyzeCalls[c].errors = ""

\* C37, amended: the same, with the text the analyzer is called with being
\* the separators between the blank entries: empty for one blank entry,
\* k - 1 line feeds for k of them.
C37_BlankCaptureGivesSeparators ==
    /\ BlankLinesAreLines
    /\ \A c \in 1..Len(analyzeCalls) :
          /\ AllBlank(storage_list.stdout) =>
                analyzeCalls[c].output = LineFeeds(Len(storage_list.stdout) - 1)
          /\ AllBlank(storage_list.stderr) =>
                analyzeCalls[c].errors = LineFeeds(Len(storage_list.stderr) - 1)

\* the child wrote a line and two blank lines to stdout; the blank lines
\* were echoed and took the two slots of the capture, and the analyzer was
\* called with one line feed
C37_Witness ==
    /\ max_lines = 2
    /\ queue_obj.stdout = <<"out1", "", "">>
    /\ storage_list.stdout = <<"", "">>
    /\ Len(RelayedOn("stdout")) = 3
    /\ Last(RelayedOn("stdout")).text = "\n"
    /\ pc = "returned"
    /\ Len(analyzeCalls) = 1
    /\ analyzeCalls[1].output = "\n"

\* C38: every line a reader takes from its pipe is put on the queue of its
\* stream and no entry is ever taken off: while the pipe is open the queue
\* holds one entry for each line written and no longer in the pipe, it
\* never holds fewer entries than lines were echoed, and the capture holds
\* the last min(N, max_lines) of its N entries; so the queue grows beyond
\* the capacity of the capture.
C38_QueueKeepsEveryLine ==
    \A s \in Streams :
        LET n == Len(queue_obj[s])
            echoed == Len(RelayedOn(s))
        IN  /\ pipeOpen[s] => n + Len(pipe[s]) = written[s]
            /\ n <= written[s]
            /\ echoed <= n /\ n <= echoed + 1
            /\ Len(storage_list[s]) = Min(n, max_lines)
            /\ storage_list[s] = LastN(queue_obj[s], max_lines)

\* three lines read from stdout with a capture of one line
C38_Witness ==
    /\ max_lines = 1
    /\ Len(queue_obj.stdout) = 3
    /\ Len(storage_list.stdout) = 1
    /\ rpc.stdout = "done"
====
